---- MODULE Spec2Model ----
(***************************************************************************)
(* daisyschain: LoRa tracker firmware (MicroPython, uasyncio).             *)
(*                                                                         *)
(* The model follows src/lib/lora.py (LoRaModule: rate-limited send path   *)
(* with the _send_lock flag, the receive queue fed by the transceiver      *)
(* interrupt and drained by check_incoming_queue) and src/lib/event.py     *)
(* (EventBus: subscribe / unsubscribe / emit and the pending-task set).    *)
(*                                                                         *)
(* Scheduling: one cooperative thread.  A coroutine runs without           *)
(* interleaving from one suspension point (await asyncio.sleep, an empty   *)
(* queue) to the next, so every action below is the code between two       *)
(* suspension points.  The transceiver callback is the only code that      *)
(* runs from interrupt context: it is enabled in every state, whatever the *)
(* position of the cooperative tasks.                                      *)
(***************************************************************************)
EXTENDS Integers, Sequences, FiniteSets, TLC

\* ------------------------------------------------------------------ bounds
\* how many times the clock is advanced in one behaviour
MaxTicks == 3
\* how many send_message calls are made in one behaviour
MaxSends == 3
\* how many times the transceiver interrupt fires in one behaviour
MaxIrq == 2
\* how many entries other code puts into the receive queue
MaxForeign == 1
\* the largest pending set the dispatcher model lets a publish grow
MaxTasks == 2
\* how many registrations the dispatcher model holds at a time, all names together
MaxHandlers == 2

\* ------------------------------------------------------- program constants
\* board config: LORA_SEND_LIMIT = const(5), seconds
LORA_SEND_LIMIT == 5
\* LoRaModule._rate_limit: the preference 'rate_limit', by default the board's
_rate_limit == LORA_SEND_LIMIT
\* the interval send_message compares with, ms
RateLimitMs == _rate_limit * 1000
\* MicroPython's ticks_ms() counts modulo 2^30 (utime.ticks_ms/ticks_diff)
TICKS_PERIOD == 2 ^ 30
TICKS_HALF == TICKS_PERIOD \div 2

\* --------------------------------------------------------------- the state
VARIABLES
    now,            \* real time since boot, ms (not wrapped; ticks_ms() is now % TICKS_PERIOD)
    ticks_used,     \* how many clock advances were made
    last_send,      \* LoRaModule._last_send (a ticks_ms() value)
    send_lock,      \* LoRaModule._send_lock
    lora_ok,        \* LoRaModule._lora is not None
    queue,          \* LoRaModule._queue, oldest entry first
    spc,            \* position of each send_message caller
    sframe,         \* the frame each suspended send_message call handed over
    dpc,            \* position of the check_incoming_queue task
    subscribers,    \* EventBus.subscribers: event name -> list of handlers
    active_tasks,   \* EventBus.active_tasks, in creation order
    emit_tasks,     \* emit() coroutines scheduled with create_task, not run yet
    \* ---- observations (written, never read by the program)
    txLog,          \* frames handed to the transceiver: [at, frame]
    txPublished,    \* number of 'lora.tx' publications
    calls,          \* number of send_message calls made
    lastCall,       \* what the latest send_message call met and did
    ret,            \* what each caller's latest send_message call returned, and why
    lastOkAt,       \* real time at which a send_message call last returned a time-on-air, -1 before
    putLog,         \* every entry put into the queue, in order
    drainLog,       \* what the drain task did with each entry it took
    irqs,           \* number of transceiver callbacks
    foreign,        \* number of entries put by other code
    lastEmit,       \* the latest publish: name, handler list, handlers invoked, raised
    ppc,            \* where the latest publisher is: in emit's sleep(0), or returned from emit
    \* ---- the tracked-peer store (tracking.py, base_device.py)
    objs,           \* the Rover objects ever made, by identity (their position in this sequence)
    rovers,         \* Rover._rovers: the dict's table of slots, each slot empty, deleted or a key with the object it maps to
    current_rover_index,  \* Rover.current_rover_index
    tracked_rover,  \* BaseDeviceHandler.tracked_rover: an object identity, 0 for None
    saved_rovers_tick,    \* BaseDeviceHandler.saved_rovers_tick
    disk,           \* the content of /rovers.json
    rxs,            \* number of messages handed to BaseDeviceHandler._lora_rx
    lastOp,         \* observation: what the latest store operation was and did
    \* ---- the framing codec (misc/thistothat.py)
    cmsg,           \* the bytes handed to message_pack (a str) or received from the radio
    csecret,        \* the secret, by its bytes
    cpc,            \* which of message_pack and message_unpack have been called
    packed_string,  \* what message_pack returned or raised
    unpacked_string,  \* what message_unpack returned or raised
    \* ---- the button (Device.check_button)
    button,         \* the level of the pin: _PRESSED or _RELEASED
    bpc,            \* position of the check_button task
    start,          \* check_button's local start
    elapsed,        \* check_button's local elapsed, Unbound before its first assignment
    presses,        \* number of times the button went down
    buttonLog,      \* the events check_button published, in order
    lastPress       \* observation: how the latest press cycle ended

radioVars == <<now, ticks_used, last_send, send_lock, lora_ok, queue, spc, sframe, dpc>>
busVars == <<subscribers, active_tasks, emit_tasks>>
obsVars == <<txLog, txPublished, calls, lastCall, ret, lastOkAt, putLog, drainLog, irqs, foreign, lastEmit>>
busObs == <<ppc>>
storeVars == <<objs, rovers, current_rover_index, tracked_rover, saved_rovers_tick, disk, rxs, lastOp>>
codecVars == <<cmsg, csecret, cpc, packed_string, unpacked_string>>
buttonVars == <<button, bpc, start, elapsed, presses, buttonLog, lastPress>>
ioVars == <<codecVars, buttonVars>>
vars == <<radioVars, busVars, obsVars, busObs, storeVars, ioVars>>

\* ------------------------------------------------------------------ values
None == "None"

Senders == {"gps_fix_1", "gps_fix_2"}

\* the length of the frame each caller's message packs to
FrameOf(s) == IF s = "gps_fix_1" THEN 1 ELSE 2

\* the packets the transceiver delivers, named by their length
Packets == {1, 2}

RssiValues == {0 - 90}

\* ticks_ms(): the millisecond counter, wrapping at TICKS_PERIOD
ticks_ms == now % TICKS_PERIOD

\* ticks_diff(a, b): signed difference of two tick values, in
\* [-TICKS_PERIOD/2, TICKS_PERIOD/2)
ticks_diff(a, b) == ((a - b + TICKS_HALF) % TICKS_PERIOD) - TICKS_HALF

\* the transceiver's time-on-air of a frame of n bytes, ms (driver, monotone in n)
getTimeOnAir(n) == 100 * n

\* _get_toa: round(getTimeOnAir(n) / 1000, 1), kept in tenths of a second
_get_toa(n) == (getTimeOnAir(n) + 50) \div 100

\* a Python dict as a function: d[k] = v, and del d[k]
DictSet(d, k, v) == [x \in (DOMAIN d) \cup {k} |-> IF x = k THEN v ELSE d[x]]

\* a mutant of DictDel: the key is kept, with an empty list
DictDel_Empty(d, k) == [x \in DOMAIN d |-> IF x = k THEN <<>> ELSE d[x]]

DictDel(d, k) == [x \in (DOMAIN d) \ {k} |-> d[x]]

EmptyDict == [x \in {} |-> <<>>]

\* ------------------------------------------------------------ the handlers
\* What calling a handler yields: "sync" returns None after running to
\* completion, "coro" returns a coroutine object (an async def), "raises"
\* raises at the call.
DeviceHandlers == {"Device._update_config", "Device._restart", "Device._reset_config", "Device._sleep", "Device._pulse_led"}

RoleHandlers == {"Rover._button_bump", "Rover._button_long", "Rover._lora_rx", "Rover._lora_tx", "Rover._gps_fix", "Base._button_bump", "Base._button_long", "Base._lora_rx"}

\* handlers of the dispatcher model: any callable can be subscribed
TestHandlers == {"h_sync", "h_raises", "h_coro"}

HandlerKind(h) ==
    CASE h \in {"Device._restart", "Device._sleep", "Device._pulse_led", "Rover._lora_rx", "Rover._gps_fix", "Base._lora_rx", "h_coro"} -> "coro"
      [] h = "h_raises" -> "raises"
      [] OTHER -> "sync"

\* Device.__init__ subscriptions
DeviceSubscriptions ==
    [n \in {"device.configure", "device.reboot", "device.reset_config", "device.sleep", "device.led.pulse"} |->
        CASE n = "device.configure" -> <<"Device._update_config">>
          [] n = "device.reboot" -> <<"Device._restart">>
          [] n = "device.reset_config" -> <<"Device._reset_config">>
          [] n = "device.sleep" -> <<"Device._sleep">>
          [] n = "device.led.pulse" -> <<"Device._pulse_led">>]

\* RoverDeviceHandler.__init__ subscriptions, after the device's own
RoverSubscriptions ==
    [n \in (DOMAIN DeviceSubscriptions) \cup {"button.bump", "button.long", "lora.rx", "lora.tx", "gps.fix"} |->
        CASE n = "button.bump" -> <<"Rover._button_bump">>
          [] n = "button.long" -> <<"Rover._button_long">>
          [] n = "lora.rx" -> <<"Rover._lora_rx">>
          [] n = "lora.tx" -> <<"Rover._lora_tx">>
          [] n = "gps.fix" -> <<"Rover._gps_fix">>
          [] OTHER -> DeviceSubscriptions[n]]

\* BaseDeviceHandler.__init__ subscriptions ('lora.rx' only with a transceiver)
BaseSubscriptions(lora) ==
    [n \in (DOMAIN DeviceSubscriptions) \cup {"button.bump", "button.long"} \cup (IF lora THEN {"lora.rx"} ELSE {}) |->
        CASE n = "button.bump" -> <<"Base._button_bump">>
          [] n = "button.long" -> <<"Base._button_long">>
          [] n = "lora.rx" -> <<"Base._lora_rx">>
          [] OTHER -> DeviceSubscriptions[n]]

\* ---------------------------------------------------------- EventBus.emit
\* the result of one emit(): the handler list it found, the handlers invoked
\* in order, the coroutines scheduled as tasks, whether an exception left
\* emit, and whether emit reached its await asyncio.sleep(0)
EmitNothing == [handlers |-> <<>>, invoked |-> <<>>, tasks |-> <<>>, raised |-> FALSE, yields |-> FALSE]

\* result = handler(*args, **kwargs)
Invoke(h) == HandlerKind(h)

\* a mutant of EmitExcept: no try/except around the handler call
EmitExcept_Propagate(acc, h) == [acc EXCEPT !.raised = TRUE]

\* except Exception as e: log and go on with the next handler
EmitExcept(acc, h) == acc

\* a mutant of EmitLoop: emit leaves its loop after the first handler
EmitLoop_One(hs, i, acc) ==
    IF i > Len(hs) THEN acc ELSE [acc EXCEPT !.invoked = Append(@, hs[i])]

RECURSIVE EmitLoop(_, _, _)
\* for handler in self.subscribers[event_name]: try ... except
EmitLoop(hs, i, acc) ==
    IF i > Len(hs) \/ acc.raised
    THEN acc
    ELSE LET h == hs[i]
             r == Invoke(h)
             a1 == [acc EXCEPT !.invoked = Append(@, h)]
         IN  EmitLoop(hs, i + 1,
                 CASE r = "raises" -> EmitExcept(a1, h)
                   [] r = "coro" -> [a1 EXCEPT !.tasks = Append(@, h)]
                   [] OTHER -> a1)

\* emit(event_name): nothing at all for a name without subscribers
emit(subs, name) ==
    IF name \in DOMAIN subs
    THEN LET r == EmitLoop(subs[name], 1, EmitNothing)
         IN  [r EXCEPT !.yields = ~r.raised, !.handlers = subs[name]]
    ELSE EmitNothing

\* task = asyncio.create_task(result); self.active_tasks.add(task)
NewTasks(hs) == [i \in 1 .. Len(hs) |-> [h |-> hs[i], done |-> FALSE]]

\* ------------------------------------------------- LoRaModule.send_message
Has(seq, x) == \E i \in 1 .. Len(seq) : seq[i] = x

\* a mutant of RateLimited: the throttle compares the wrong way round
RateLimited_Reversed(t, last) == ticks_diff(t, last) > RateLimitMs

\* if utime.ticks_diff(utime.ticks_ms(), self._last_send) < (self._rate_limit * 1000)
RateLimited(t, last) == ticks_diff(t, last) < RateLimitMs

\* a mutant of LockAvailable: the lock is not looked at
LockAvailable_NoLock(lora, lock) == lora

\* if self._lora and not self._send_lock
LockAvailable(lora, lock) == lora /\ ~lock

\* a mutant of SendTry: 'lora.tx' is published before the transceiver call
SendTry_EmitFirst(fault) ==
    CASE fault = "pack" -> [steps |-> <<"lock">>, raised |-> TRUE]
      [] fault = "send" -> [steps |-> <<"lock", "pack", "emit">>, raised |-> TRUE]
      [] OTHER -> [steps |-> <<"lock", "pack", "emit", "send", "led">>, raised |-> FALSE]

\* The try body up to the await: take the lock, message_pack, self._lora.send,
\* create_task(emit('device.led.pulse')), emit('lora.tx').  fault names the call
\* that raises ("pack": message_pack, "send": the transceiver call); the steps
\* are those completed before the exception.
SendTry(fault) ==
    CASE fault = "pack" -> [steps |-> <<"lock">>, raised |-> TRUE]
      [] fault = "send" -> [steps |-> <<"lock", "pack">>, raised |-> TRUE]
      [] OTHER -> [steps |-> <<"lock", "pack", "send", "led", "emit">>, raised |-> FALSE]

\* a mutant of SendExcept: no except clause, the exception leaves send_message
SendExcept_Propagate == [kind |-> "raise", val |-> 0, outcome |-> "failed"]

\* except Exception as e: log; then the function's last line, return None
SendExcept == [kind |-> "none", val |-> 0, outcome |-> "failed"]

\* a mutant of SendFinally: the lock is not released
SendFinally_Keep(lock) == lock

\* finally: self._send_lock = False
SendFinally(lock) == FALSE

\* a mutant of SendStamp: _last_send is not updated
SendStamp_Skip(t, last) == last

\* self._last_send = utime.ticks_ms()
SendStamp(t, last) == t

\* return self._get_toa(len(lora_message))
SendReturn(frame) == [kind |-> "toa", val |-> _get_toa(frame), outcome |-> "sent"]

NoCall == [by |-> None, at |-> 0, sinceOk |-> 0 - 1, limited |-> FALSE, lock |-> FALSE, lora |-> FALSE, fault |-> "none", steps |-> <<>>, outcome |-> "none"]

\* send_message from its first line to its first suspension point or its return
send_message(s, fault) ==
    /\ spc[s] = "idle"
    /\ calls < MaxSends
    /\ LET m == FrameOf(s)
           limited == RateLimited(ticks_ms, last_send)
           entered == ~limited /\ LockAvailable(lora_ok, send_lock)
           try == SendTry(fault)
           e == emit(subscribers, "lora.tx")
           sent == entered /\ Has(try.steps, "send")
           pub == entered /\ Has(try.steps, "emit")
           exc == entered /\ (try.raised \/ (pub /\ e.raised))
           susp == pub /\ ~exc /\ e.yields
           complete == entered /\ ~exc /\ ~susp
           result == IF complete THEN SendReturn(m)
                     ELSE IF susp THEN [kind |-> "pending", val |-> 0, outcome |-> "sent"]
                     ELSE IF exc THEN SendExcept
                     ELSE [kind |-> "none", val |-> 0, outcome |-> IF limited THEN "limited" ELSE "blocked"]
       IN  /\ calls' = calls + 1
           /\ lastCall' = [by |-> s, at |-> now,
                           sinceOk |-> IF lastOkAt < 0 THEN 0 - 1 ELSE now - lastOkAt,
                           limited |-> limited, lock |-> send_lock, lora |-> lora_ok,
                           fault |-> fault,
                           steps |-> IF entered THEN try.steps ELSE <<>>,
                           outcome |-> IF limited THEN "limited"
                                       ELSE IF ~entered THEN "blocked"
                                       ELSE IF exc THEN "failed" ELSE "sent"]
           /\ txLog' = IF sent THEN Append(txLog, [at |-> now, frame |-> m, by |-> s]) ELSE txLog
           /\ txPublished' = IF pub THEN txPublished + 1 ELSE txPublished
           /\ emit_tasks' = IF entered /\ Has(try.steps, "led")
                            THEN Append(emit_tasks, "device.led.pulse") ELSE emit_tasks
           /\ active_tasks' = IF pub THEN active_tasks \o NewTasks(e.tasks) ELSE active_tasks
           /\ lastEmit' = IF pub THEN [name |-> "lora.tx", handlers |-> e.handlers, invoked |-> e.invoked, raised |-> e.raised]
                          ELSE lastEmit
           /\ spc' = IF susp THEN [spc EXCEPT ![s] = "emit_wait"] ELSE spc
           /\ sframe' = IF susp THEN [sframe EXCEPT ![s] = m] ELSE sframe
           /\ send_lock' = IF ~entered THEN send_lock
                           ELSE IF susp THEN TRUE
                           ELSE SendFinally(TRUE)
           /\ last_send' = IF complete THEN SendStamp(ticks_ms, last_send) ELSE last_send
           /\ ret' = [ret EXCEPT ![s] = result]
           /\ lastOkAt' = IF result.kind = "toa" THEN now ELSE lastOkAt
    /\ UNCHANGED <<now, ticks_used, lora_ok, queue, dpc, subscribers>>
    /\ UNCHANGED <<putLog, drainLog, irqs, foreign>>
    /\ UNCHANGED <<busObs, storeVars, ioVars>>

\* send_message after its await self._device.bus.emit('lora.tx'): log, stamp,
\* return the time-on-air, release the lock
send_resume(s) ==
    /\ spc[s] = "emit_wait"
    /\ spc' = [spc EXCEPT ![s] = "idle"]
    /\ last_send' = SendStamp(ticks_ms, last_send)
    /\ ret' = [ret EXCEPT ![s] = SendReturn(sframe[s])]
    /\ lastOkAt' = now
    /\ send_lock' = SendFinally(send_lock)
    /\ sframe' = [sframe EXCEPT ![s] = 0]
    /\ UNCHANGED <<now, ticks_used, lora_ok, queue, dpc, busVars>>
    /\ UNCHANGED <<txLog, txPublished, calls, lastCall, putLog, drainLog, irqs, foreign, lastEmit>>
    /\ UNCHANGED <<busObs, storeVars, ioVars>>

\* ---------------------------------------------------------------- the clock
\* the amounts by which the clock is advanced: a millisecond, just under the
\* rate-limit interval, the interval, and half the tick counter's period (a long idle time)
TickSteps == {1, RateLimitMs - 1, RateLimitMs, TICKS_HALF}

\* the latest real time the model reaches: past one wrap of ticks_ms()
MaxNow == TICKS_PERIOD + 2 * RateLimitMs

Tick(d) ==
    /\ ticks_used < MaxTicks
    /\ now + d <= MaxNow
    /\ now' = now + d
    /\ ticks_used' = ticks_used + 1
    /\ UNCHANGED <<last_send, send_lock, lora_ok, queue, spc, sframe, dpc, busVars, obsVars>>
    /\ UNCHANGED <<busObs, storeVars, ioVars>>

\* ------------------------------------------------------- the receive queue
\* A queue entry is a Python value: None, a tuple or list of items, or some
\* other object.  tag tells which; items are the elements of a tuple.
NoneEntry == [tag |-> "none", items |-> <<>>]

\* the entries other code can put: None, an object that is no tuple, and a
\* tuple of the wrong arity
ForeignEntries ==
    {NoneEntry, [tag |-> "object", items |-> <<>>], [tag |-> "tuple", items |-> <<1, 0 - 90>>]}

\* Queue.put_nowait on a first-in-first-out queue without capacity: append
QueuePut(q, x) == Append(q, x)

\* Queue.get on a queue that is not empty: the oldest entry, and what is left
QueueGet(q) == [item |-> Head(q), rest |-> Tail(q)]

\* a mutant of CbEnqueue: the receive error is ignored
CbEnqueue_IgnoreErr(q, entry, err, full) == IF ~full THEN QueuePut(q, entry) ELSE q

\* if not err: try: self._queue.put_nowait(...) except: log
CbEnqueue(q, entry, err, full) == IF ~err /\ ~full THEN QueuePut(q, entry) ELSE q

\* (packet, self._lora.getRSSI(), self._lora.getTimeOnAir(len(packet)))
CbEntry(p, rssi) == [tag |-> "tuple", items |-> <<p, rssi, getTimeOnAir(p)>>]

\* The transceiver's callback, from interrupt context.  events is the set of
\* completed events; p and rssi are what recv() and getRSSI() give, err is
\* recv()'s error, full is put_nowait raising.
_rx_tx_cb(events, p, rssi, err, full) ==
    /\ lora_ok
    /\ irqs' = irqs + 1
    /\ queue' = IF "RX_DONE" \in events THEN CbEnqueue(queue, CbEntry(p, rssi), err, full) ELSE queue
    /\ putLog' = IF queue' # queue THEN Append(putLog, CbEntry(p, rssi)) ELSE putLog
    /\ UNCHANGED <<now, ticks_used, last_send, send_lock, lora_ok, spc, sframe, dpc, busVars>>
    /\ UNCHANGED <<txLog, txPublished, calls, lastCall, ret, lastOkAt, drainLog, foreign, lastEmit>>
    /\ UNCHANGED <<busObs, storeVars, ioVars>>

\* other code holding the LoRaModule puts an entry of its own
ForeignPut(x) ==
    /\ foreign < MaxForeign
    /\ foreign' = foreign + 1
    /\ queue' = QueuePut(queue, x)
    /\ putLog' = Append(putLog, x)
    /\ UNCHANGED <<now, ticks_used, last_send, send_lock, lora_ok, spc, sframe, dpc, busVars>>
    /\ UNCHANGED <<txLog, txPublished, calls, lastCall, ret, lastOkAt, drainLog, irqs, lastEmit>>
    /\ UNCHANGED <<busObs, storeVars, ioVars>>

\* if queue_item is None
IsNone(item) == item.tag = "none"

\* a mutant of Malformed: the length is not checked
Malformed_NoLen(item) == item.tag # "tuple"

\* if not isinstance(queue_item, (tuple, list)) or len(queue_item) != 3
Malformed(item) == item.tag # "tuple" \/ Len(item.items) # 3

\* a mutant of RxArgs: signal and air time change places
RxArgs_Swapped(item) == <<item.items[1], item.items[3], item.items[2]>>

\* packet, rssi, toa = queue_item; emit('lora.rx', packet, rssi, toa)
RxArgs(item) == <<item.items[1], item.items[2], item.items[3]>>

\* check_incoming_queue: one turn of the loop, from the queue's get to the
\* next suspension point.  The unpacking at line 173 is outside the try: an
\* entry that is not three items long ends the task there.
check_incoming_queue ==
    /\ dpc = "get"
    /\ queue # <<>>
    /\ LET item == QueueGet(queue).item
           skip == IsNone(item) \/ Malformed(item)
           crash == ~skip /\ (item.tag # "tuple" \/ Len(item.items) # 3)
           pub == ~skip /\ ~crash
           e == emit(subscribers, "lora.rx")
       IN  /\ queue' = QueueGet(queue).rest
           /\ drainLog' = Append(drainLog,
                  [item |-> item,
                   act |-> IF skip THEN "skip" ELSE IF crash THEN "crash" ELSE "publish",
                   args |-> IF pub THEN RxArgs(item) ELSE <<>>])
           /\ dpc' = IF crash THEN "dead"
                     ELSE IF pub /\ e.yields THEN "emit_wait"
                     ELSE "get"
           /\ emit_tasks' = IF pub THEN Append(emit_tasks, "device.led.pulse") ELSE emit_tasks
           /\ active_tasks' = IF pub THEN active_tasks \o NewTasks(e.tasks) ELSE active_tasks
           /\ lastEmit' = IF pub THEN [name |-> "lora.rx", handlers |-> e.handlers, invoked |-> e.invoked, raised |-> e.raised]
                          ELSE lastEmit
    /\ UNCHANGED <<now, ticks_used, last_send, send_lock, lora_ok, spc, sframe, subscribers>>
    /\ UNCHANGED <<txLog, txPublished, calls, lastCall, ret, lastOkAt, putLog, irqs, foreign>>
    /\ UNCHANGED <<busObs, storeVars, ioVars>>

\* check_incoming_queue after its await self._device.bus.emit('lora.rx', ...)
drain_resume ==
    /\ dpc = "emit_wait"
    /\ dpc' = "get"
    /\ UNCHANGED <<now, ticks_used, last_send, send_lock, lora_ok, queue, spc, sframe, busVars, obsVars>>
    /\ UNCHANGED <<busObs, storeVars, ioVars>>

\* a task made by asyncio.create_task(self._device.bus.emit(name, ...)) runs:
\* tasks run in the order they were created
run_emit_task ==
    /\ emit_tasks # <<>>
    /\ LET e == emit(subscribers, Head(emit_tasks))
       IN  /\ active_tasks' = active_tasks \o NewTasks(e.tasks)
           /\ lastEmit' = [name |-> Head(emit_tasks), handlers |-> e.handlers, invoked |-> e.invoked, raised |-> e.raised]
    /\ emit_tasks' = Tail(emit_tasks)
    /\ UNCHANGED <<radioVars, subscribers>>
    /\ UNCHANGED <<txLog, txPublished, calls, lastCall, ret, lastOkAt, putLog, drainLog, irqs, foreign>>
    /\ UNCHANGED <<busObs, storeVars, ioVars>>

\* ------------------------------------------------- the radio link: Spec
NoEmit == [name |-> None, handlers |-> <<>>, invoked |-> <<>>, raised |-> FALSE]

\* no publisher is followed yet
NoPublisher == "none"

\* a dict with string keys as a function; the empty dict
NoData == [k \in {} |-> 0]

\* the rovers file: valid is FALSE when it holds no JSON list
NoFile == [valid |-> FALSE, content |-> <<>>]

NoMsg == [ok |-> FALSE, id |-> None, data |-> NoData]

\* what a store operation met and did
Op(op, m, created, updated, saved, again) ==
    [op |-> op, msg |-> m, created |-> created, updated |-> updated, saved |-> saved, again |-> again]

NoOp == Op("none", NoMsg, FALSE, FALSE, FALSE, FALSE)

\* no rovers file, no Rover made, nothing tracked (BaseDeviceHandler.__init__
\* with load_rovers finding no file)
InitStoreEmpty ==
    /\ objs = <<>>
    /\ rovers = <<>>
    /\ current_rover_index = 0
    /\ tracked_rover = 0
    /\ saved_rovers_tick = 0
    /\ disk = NoFile
    /\ rxs = 0
    /\ lastOp = NoOp

\* the value of a local variable that has not been assigned
Unbound == 0 - 1

_PRESSED == 0

_RELEASED == 1

\* what a call returned: exc names the exception that left it ("none": it
\* returned), none is TRUE when it returned None, value holds the bytes else
Ret(exc, none, value) == [exc |-> exc, none |-> none, value |-> value]

NoRet == Ret("none", TRUE, <<>>)

NoPress == [e1 |-> Unbound, e2 |-> Unbound, events |-> <<>>, how |-> "none"]

\* no codec call is made
InitCodecIdle ==
    /\ cmsg = <<>>
    /\ csecret = <<>>
    /\ cpc = "idle"
    /\ packed_string = NoRet
    /\ unpacked_string = NoRet

\* the button is up and is left alone; check_button has not run
InitButtonIdle ==
    /\ button = _RELEASED
    /\ bpc = "idle"
    /\ start = 0
    /\ elapsed = Unbound
    /\ presses = 0
    /\ buttonLog = <<>>
    /\ lastPress = NoPress

InitIo == InitCodecIdle /\ InitButtonIdle

InitObs ==
    /\ txLog = <<>>
    /\ txPublished = 0
    /\ calls = 0
    /\ lastCall = NoCall
    /\ ret = [s \in Senders |-> [kind |-> "never", val |-> 0, outcome |-> "none"]]
    /\ lastOkAt = 0 - 1
    /\ putLog = <<>>
    /\ drainLog = <<>>
    /\ irqs = 0
    /\ foreign = 0
    /\ lastEmit = NoEmit
    /\ ppc = NoPublisher

\* after Device.__init__ (EventBus, LoRaModule) and the role handler's
\* __init__: _last_send is the tick of construction, the lock is free, the
\* queue is empty; _lora is None when the transceiver failed to initialise
Init ==
    /\ now = 0
    /\ ticks_used = 0
    /\ last_send = ticks_ms
    /\ send_lock = FALSE
    /\ lora_ok \in BOOLEAN
    /\ queue = <<>>
    /\ spc = [s \in Senders |-> "idle"]
    /\ sframe = [s \in Senders |-> 0]
    /\ dpc = "get"
    /\ \E is_rover \in BOOLEAN :
          subscribers = IF is_rover THEN RoverSubscriptions ELSE BaseSubscriptions(lora_ok)
    /\ active_tasks = <<>>
    /\ emit_tasks = <<>>
    /\ InitObs
    /\ InitIo
    /\ InitStoreEmpty

\* the send path and the clock
Next ==
    \/ \E d \in TickSteps : Tick(d)
    \/ \E s \in Senders, fault \in {"none", "pack", "send"} : send_message(s, fault)
    \/ \E s \in Senders : send_resume(s)
    \/ run_emit_task

Spec == Init /\ [][Next]_vars

\* A state of the send path that Spec reaches (Tick(RateLimitMs), then the
\* rover's gps_fix_1 calls send_message): the call is suspended at its await
\* of emit('lora.tx') and holds the lock.
MidSend ==
    /\ now = RateLimitMs
    /\ ticks_used = 1
    /\ last_send = 0
    /\ send_lock = TRUE
    /\ lora_ok = TRUE
    /\ queue = <<>>
    /\ spc = [s \in Senders |-> IF s = "gps_fix_1" THEN "emit_wait" ELSE "idle"]
    /\ sframe = [s \in Senders |-> IF s = "gps_fix_1" THEN FrameOf(s) ELSE 0]
    /\ dpc = "get"
    /\ subscribers = RoverSubscriptions
    /\ active_tasks = <<>>
    /\ emit_tasks = <<"device.led.pulse">>
    /\ txLog = <<[at |-> RateLimitMs, frame |-> FrameOf("gps_fix_1"), by |-> "gps_fix_1"]>>
    /\ txPublished = 1
    /\ calls = 1
    /\ lastCall = [by |-> "gps_fix_1", at |-> RateLimitMs, sinceOk |-> 0 - 1, limited |-> FALSE,
                   lock |-> FALSE, lora |-> TRUE, fault |-> "none",
                   steps |-> SendTry("none").steps, outcome |-> "sent"]
    /\ ret = [s \in Senders |-> IF s = "gps_fix_1" THEN [kind |-> "pending", val |-> 0, outcome |-> "sent"] ELSE [kind |-> "never", val |-> 0, outcome |-> "none"]]
    /\ lastOkAt = 0 - 1
    /\ putLog = <<>>
    /\ drainLog = <<>>
    /\ irqs = 0
    /\ foreign = 0
    /\ lastEmit = [name |-> "lora.tx", handlers |-> <<"Rover._lora_tx">>, invoked |-> <<"Rover._lora_tx">>, raised |-> FALSE]
    /\ ppc = NoPublisher
    /\ InitStoreEmpty
    /\ InitIo

\* the receive path starts with the send path at rest or in the middle of a send
InitRx == Init \/ MidSend

\* the receive path: the interrupt, other producers, the drain task; a send
\* that was under way completes
NextRx ==
    \/ \E events \in SUBSET {"RX_DONE", "TX_DONE"}, p \in Packets, rssi \in RssiValues, err \in BOOLEAN, full \in BOOLEAN :
          irqs < MaxIrq /\ _rx_tx_cb(events, p, rssi, err, full)
    \/ \E x \in ForeignEntries : ForeignPut(x)
    \/ check_incoming_queue
    \/ drain_resume
    \/ run_emit_task
    \/ \E s \in Senders : send_resume(s)

SpecRx == InitRx /\ [][NextRx]_vars

\* ------------------------------------------------ the dispatcher: SpecBus
\* the event names and handlers the dispatcher model publishes and registers
BusNames == {"x", "y"}

\* list.remove(h): the list without the first h
RECURSIVE RemoveFirst(_, _)
RemoveFirst(seq, h) ==
    IF seq = <<>> THEN <<>>
    ELSE IF Head(seq) = h THEN Tail(seq)
    ELSE <<Head(seq)>> \o RemoveFirst(Tail(seq), h)

\* how many registrations the registry holds
RECURSIVE RegisteredIn(_)
RegisteredIn(names) ==
    IF names = {} THEN 0
    ELSE LET n == CHOOSE x \in names : TRUE
         IN  Len(subscribers[n]) + RegisteredIn(names \ {n})

Registered == RegisteredIn(DOMAIN subscribers)

\* EventBus.subscribe
subscribe(n, h) ==
    /\ subscribers' = IF n \notin DOMAIN subscribers
                      THEN DictSet(subscribers, n, <<h>>)
                      ELSE DictSet(subscribers, n, Append(subscribers[n], h))
    /\ UNCHANGED <<radioVars, active_tasks, emit_tasks, obsVars, busObs, storeVars, ioVars>>

\* what EventBus.unsubscribe returns: True after a removal, False when the
\* handler is not in the name's list (ValueError), None when the name has no entry
UnsubscribeResult(subs, n, h) ==
    IF n \in DOMAIN subs
    THEN IF Has(subs[n], h) THEN "True" ELSE "False"
    ELSE None

\* EventBus.unsubscribe: True after a removal, False when the handler is not
\* in the name's list, None when the name has no entry
unsubscribe(n, h) ==
    /\ subscribers' = IF n \in DOMAIN subscribers /\ Has(subscribers[n], h)
                      THEN IF RemoveFirst(subscribers[n], h) = <<>>
                           THEN DictDel(subscribers, n)
                           ELSE DictSet(subscribers, n, RemoveFirst(subscribers[n], h))
                      ELSE subscribers
    /\ UNCHANGED <<radioVars, active_tasks, emit_tasks, obsVars, busObs, storeVars, ioVars>>

\* some task runs await bus.emit(n), up to emit's await asyncio.sleep(0), or
\* to emit's return when the name has no subscribers.  The publisher followed
\* is the latest one.
publish(n) ==
    /\ LET e == emit(subscribers, n)
       IN  /\ active_tasks' = active_tasks \o NewTasks(e.tasks)
           /\ lastEmit' = [name |-> n, handlers |-> e.handlers, invoked |-> e.invoked, raised |-> e.raised]
           /\ ppc' = IF e.yields THEN "sleep" ELSE "returned"
    /\ UNCHANGED <<radioVars, subscribers, emit_tasks>>
    /\ UNCHANGED <<txLog, txPublished, calls, lastCall, ret, lastOkAt, putLog, drainLog, irqs, foreign>>
    /\ UNCHANGED <<storeVars, ioVars>>

\* emit after its await asyncio.sleep(0): it returns to the publisher
publish_return ==
    /\ ppc = "sleep"
    /\ ppc' = "returned"
    /\ UNCHANGED <<radioVars, busVars, obsVars, storeVars, ioVars>>

\* the coroutine of a scheduled handler runs to its end: task.done() is True
task_done(i) ==
    /\ i \in 1 .. Len(active_tasks)
    /\ ~active_tasks[i].done
    /\ active_tasks' = [active_tasks EXCEPT ![i].done = TRUE]
    /\ UNCHANGED <<radioVars, subscribers, emit_tasks, obsVars, busObs, storeVars, ioVars>>

\* a mutant of clean_tasks: the sweep empties the set
clean_tasks_All(tasks) == <<>>

\* a mutant of clean_tasks: the sweep removes nothing
clean_tasks_Keep(tasks) == tasks

\* EventBus.clean_tasks: keep the tasks that are not done
clean_tasks(tasks) == SelectSeq(tasks, LAMBDA t : ~t.done)

\* EventBus.task_cleaner: one turn of its loop, clean_tasks then sleep(15)
task_cleaner ==
    /\ active_tasks' = clean_tasks(active_tasks)
    /\ UNCHANGED <<radioVars, subscribers, emit_tasks, obsVars>>
    /\ UNCHANGED <<busObs, storeVars, ioVars>>

\* Device._shutdown, its step after the first sleep: the registry is cleared
\* and the pending set is swept
_shutdown ==
    /\ subscribers' = EmptyDict
    /\ active_tasks' = clean_tasks(active_tasks)
    /\ UNCHANGED <<radioVars, emit_tasks, obsVars, busObs, storeVars, ioVars>>

\* after EventBus.__init__: no subscribers, no tasks
InitBus ==
    /\ now = 0
    /\ ticks_used = 0
    /\ last_send = 0
    /\ send_lock = FALSE
    /\ lora_ok = FALSE
    /\ queue = <<>>
    /\ spc = [s \in Senders |-> "idle"]
    /\ sframe = [s \in Senders |-> 0]
    /\ dpc = "get"
    /\ subscribers = EmptyDict
    /\ active_tasks = <<>>
    /\ emit_tasks = <<>>
    /\ InitObs
    /\ InitIo
    /\ InitStoreEmpty

NextBus ==
    \/ \E n \in BusNames, h \in TestHandlers :
          Registered < MaxHandlers /\ subscribe(n, h)
    \/ \E n \in BusNames, h \in TestHandlers : unsubscribe(n, h)
    \/ \E n \in BusNames : Len(active_tasks) + Len(emit(subscribers, n).tasks) <= MaxTasks /\ publish(n)
    \/ publish_return
    \/ \E i \in 1 .. Len(active_tasks) : task_done(i)
    \/ task_cleaner
    \/ _shutdown

SpecBus == InitBus /\ [][NextBus]_vars

\* main() creates the task_cleaner task, which the scheduler runs in turn
\* with the others for as long as the device runs
SpecBusLive == SpecBus /\ WF_vars(task_cleaner)

\* ------------------------------------------- the tracked-peer store
\* how many messages BaseDeviceHandler._lora_rx is handed in one behaviour
MaxRx == 2

\* how many times the clock is advanced between store operations in one behaviour
MaxStoreTicks == 1

\* base_device.py: _ROVERS_SAVE_INTERVAL = const(300_000), ms
_ROVERS_SAVE_INTERVAL == 300000

\* the position data a message carries besides its id
DataChoices ==
    {[k \in {"lat", "lon"} |-> IF k = "lat" THEN 10 ELSE 20],
     [k \in {"sat"} |-> 7],
     [k \in {"lat"} |-> 11]}

\* A received frame, by what message_unpack and is_json make of it: ok is
\* FALSE when is_json returns (None, err); id is None when the dict has no
\* 'id' (or a null one); data are the other keys.
Messages ==
    {[ok |-> TRUE, id |-> "r1", data |-> d] : d \in DataChoices}
        \cup {[ok |-> TRUE, id |-> "r2", data |-> [k \in {"lat", "lon"} |-> IF k = "lat" THEN 10 ELSE 20]],
              [ok |-> TRUE, id |-> None, data |-> [k \in {"lat"} |-> 10]],
              [ok |-> FALSE, id |-> None, data |-> NoData]}

\* rssi and toa as emit('lora.rx', packet, rssi, toa) passes them
Weak == [rssi |-> 0 - 90, toa |-> 100]

Strong == [rssi |-> 0 - 60, toa |-> 200]

\* the frames received: each message with one signal, the first one with both
Frames ==
    {[m |-> m, sig |-> IF "sat" \in DOMAIN m.data \/ m.id = "r2" THEN Strong ELSE Weak] : m \in Messages}
        \cup {[m |-> m, sig |-> Strong] : m \in {x \in Messages : x.id = "r1" /\ "lon" \in DOMAIN x.data}}

\* how save_rovers can fail: ujson.dump raises after open() has truncated the
\* file
SaveFaults == {"none", "dump"}

\* dict.update of single keys: every key of new set in old
Merge(old, new) ==
    [k \in (DOMAIN old) \cup (DOMAIN new) |-> IF k \in DOMAIN new THEN new[k] ELSE old[k]]

\* a mutant of Rover_init: the constructor does not store the signal
Rover_init_NoSignal(tracked_data, last_rssi, last_toa, t) ==
    [id |-> tracked_data.id, gps_data |-> tracked_data.data, last_rssi |-> 0, last_track |-> t, last_toa |-> last_toa]

\* Rover.__init__ up to its last line: the new object's slots.  The keys of
\* tracked_data other than 'id' are copied into a new gps_data dict.
Rover_init(tracked_data, last_rssi, last_toa, t) ==
    [id |-> tracked_data.id, gps_data |-> tracked_data.data, last_rssi |-> last_rssi, last_track |-> t, last_toa |-> last_toa]

\* a mutant of update: gps_data is replaced by the new data
update_Replace(self, new_rover_data, last_rssi, last_toa, t) ==
    [self EXCEPT !.gps_data = new_rover_data.data, !.last_rssi = last_rssi, !.last_track = t, !.last_toa = last_toa]

\* Rover.update
update(self, new_rover_data, last_rssi, last_toa, t) ==
    [self EXCEPT !.gps_data = Merge(@, new_rover_data.data), !.last_rssi = last_rssi, !.last_track = t, !.last_toa = last_toa]

\* the ids of the model, by their bytes
RoverIds == {"r1", "r2", "r3"}

IdBytes == [i \in RoverIds |-> <<114, IF i = "r1" THEN 49 ELSE IF i = "r2" THEN 50 ELSE 51>>]

RECURSIVE Xor(_, _)
\* a ^ b on non-negative integers
Xor(a, b) ==
    IF a = 0 THEN b
    ELSE IF b = 0 THEN a
    ELSE (((a % 2) + (b % 2)) % 2) + 2 * Xor(a \div 2, b \div 2)

\* the width of a str hash: 2 bytes
Q_HASH_MASK == 2 ^ 16

RECURSIVE HashLoop(_, _, _)
\* the hash of a str in MicroPython: hash = (hash * 33) ^ byte from 5381.
\* Only the low 16 bits are kept at the end, and they depend on the low 16
\* bits of each step alone, so each step is cut to them.
HashLoop(data, i, hash) ==
    IF i > Len(data) THEN hash
    ELSE HashLoop(data, i + 1, Xor((hash * 33) % Q_HASH_MASK, data[i]))

\* ... never 0
qstr_compute_hash(data) ==
    LET hash == HashLoop(data, 1, 5381 % Q_HASH_MASK) % Q_HASH_MASK
    IN  IF hash = 0 THEN 1 ELSE hash

IdHash == [i \in RoverIds |-> qstr_compute_hash(IdBytes[i])]

\* A dict of MicroPython is a hash table with open addressing, and keys(),
\* values() and iteration walk its slots in table order.  A slot is empty,
\* deleted, or holds a key and the object it maps to (obj is never 0 then).
MP_OBJ_NULL == [key |-> "MP_OBJ_NULL", obj |-> 0]

MP_OBJ_SENTINEL == [key |-> "MP_OBJ_SENTINEL", obj |-> 0]

\* the table sizes a dict grows through
hash_allocation_sizes == <<0, 2, 4, 6, 8, 10, 12, 17>>

get_hash_alloc_greater_or_equal_to(x) ==
    hash_allocation_sizes[CHOOSE i \in 1 .. Len(hash_allocation_sizes) :
                              /\ hash_allocation_sizes[i] >= x
                              /\ \A j \in 1 .. (i - 1) : hash_allocation_sizes[j] < x]

\* the keys of the dict with their objects, in the order iteration gives them
Entries(rs) == SelectSeq(rs, LAMBDA e : e.obj # 0)

RECURSIVE FreeSlot(_, _, _, _)
\* the slot (from 0) a key not in the table is put in: probing from pos, the
\* first deleted slot passed before an empty one, else the empty one; -1 when
\* all n = Len(rs) slots hold keys
FreeSlot(rs, pos, avail, n) ==
    IF n = Len(rs) THEN avail
    ELSE IF rs[pos + 1] = MP_OBJ_NULL THEN (IF avail >= 0 THEN avail ELSE pos)
    ELSE IF rs[pos + 1] = MP_OBJ_SENTINEL /\ avail < 0 THEN FreeSlot(rs, (pos + 1) % Len(rs), pos, n + 1)
    ELSE FreeSlot(rs, (pos + 1) % Len(rs), avail, n + 1)

RECURSIVE MapAdd(_, _, _)
RECURSIVE RehashLoop(_, _, _)
\* the keys of the old table are put into the new one in slot order
RehashLoop(old, i, new) ==
    IF i > Len(old) THEN new
    ELSE RehashLoop(old, i + 1, IF old[i].obj # 0 THEN MapAdd(new, old[i].key, old[i].obj) ELSE new)

\* a full table is replaced by one of the next size
mp_map_rehash(rs) ==
    RehashLoop(rs, 1, [i \in 1 .. get_hash_alloc_greater_or_equal_to(Len(rs) + 1) |-> MP_OBJ_NULL])

\* a key that is not in the table is added: at hash % alloc or the next free
\* slot after it, after growing the table when it is full
MapAdd(rs, key, obj) ==
    LET slot == FreeSlot(rs, IF Len(rs) = 0 THEN 0 ELSE IdHash[key] % Len(rs), 0 - 1, 0)
    IN  IF slot < 0 THEN MapAdd(mp_map_rehash(rs), key, obj)
        ELSE [rs EXCEPT ![slot + 1] = [key |-> key, obj |-> obj]]

\* Rover.list_rovers: list(Rover._rovers.keys())
list_rovers(rs) ==
    LET es == Entries(rs)
    IN  [i \in 1 .. Len(es) |-> es[i].key]

\* list.index(x), counted from 0
IndexOf(seq, x) == (CHOOSE i \in 1 .. Len(seq) : seq[i] = x /\ \A j \in 1 .. (i - 1) : seq[j] # x) - 1

\* Rover._rovers.get(rover_id): the object, 0 for None
get_rover(rs, rover_id) ==
    LET es == Entries(rs)
    IN  IF \E i \in 1 .. Len(es) : es[i].key = rover_id
        THEN es[CHOOSE i \in 1 .. Len(es) : es[i].key = rover_id /\ \A j \in 1 .. (i - 1) : es[j].key # rover_id].obj
        ELSE 0

\* a mutant of RoversSet: the entry is added without looking for the key
RoversSet_Append(rs, key, obj) == Append(rs, [key |-> key, obj |-> obj])

\* a mutant of RoversSet: the store is made anew with the one entry
RoversSet_Reset(rs, key, obj) == <<[key |-> key, obj |-> obj]>>

\* self._rovers[self.id] = self: an old key keeps its slot, a new key takes
\* the slot its hash gives it
RoversSet(rs, key, obj) ==
    IF Has(list_rovers(rs), key)
    THEN [i \in 1 .. Len(rs) |-> IF rs[i].key = key THEN [key |-> key, obj |-> obj] ELSE rs[i]]
    ELSE MapAdd(rs, key, obj)

\* a mutant of untrack_rover: nothing is removed
untrack_rover_None(rs, rover_id) == rs

\* Rover.untrack_rover: cls._rovers.pop(rover_id, None).  The slot of the key
\* becomes empty when the slot after it is empty, deleted otherwise.
untrack_rover(rs, rover_id) ==
    IF ~Has(list_rovers(rs), rover_id) THEN rs
    ELSE LET pos == CHOOSE i \in 1 .. Len(rs) : rs[i].key = rover_id
         IN  [rs EXCEPT ![pos] = IF rs[(pos % Len(rs)) + 1] = MP_OBJ_NULL THEN MP_OBJ_NULL ELSE MP_OBJ_SENTINEL]

\* Rover.to_dict
to_dict(self) ==
    [id |-> self.id, gps_data |-> self.gps_data, last_rssi |-> self.last_rssi, last_track |-> self.last_track, last_toa |-> self.last_toa]

\* tracking.save_rovers: every exception is caught; the file holds no valid
\* list when dump raises
save_rovers(os, rs, d, fault) ==
    IF fault = "dump" THEN NoFile
    ELSE [valid |-> TRUE, content |-> [i \in 1 .. Len(Entries(rs)) |-> to_dict(os[Entries(rs)[i].obj])]]

\* an entry of the file that load_rovers can read: an object with 'id',
\* 'last_rssi', 'last_toa' and a 'gps_data' with 'lat', 'lon' and 'ut'
Loadable(data) ==
    /\ {"id", "gps_data", "last_rssi", "last_toa"} \subseteq DOMAIN data
    /\ {"lat", "lon", "ut"} \subseteq DOMAIN data.gps_data

\* what reading an entry raises: data['id'] on something that is no object
\* is a TypeError, a missing key a KeyError
LoadError(data) ==
    IF Loadable(data) THEN "none"
    ELSE IF "gps_data" \in DOMAIN data \/ "id" \in DOMAIN data THEN "KeyError"
    ELSE "TypeError"

RECURSIVE LoadLoop(_, _, _)
\* tracking.load_rovers: for data in rovers_data: Rover(...); an entry that
\* raises ends the loop with the rovers made so far
LoadLoop(file, i, st) ==
    IF i > Len(file) THEN st
    ELSE IF ~Loadable(file[i]) THEN [st EXCEPT !.exc = LoadError(file[i])]
    ELSE LET data == file[i]
             new_rover == Rover_init([id |-> data.id,
                                      data |-> [k \in {"lat", "lon", "ut"} |-> data.gps_data[k]]],
                                     data.last_rssi, data.last_toa, 0)
             os == Append(st.objs, new_rover)
         IN  LoadLoop(file, i + 1, [st EXCEPT !.objs = os, !.rovers = RoversSet(st.rovers, data.id, Len(os))])

\* except (OSError, ValueError) and except Exception: what load_rovers
\* handles itself
LoadCaught(exc) ==
    \/ exc \in {"OSError", "ValueError"}
    \/ exc \in {"OSError", "ValueError", "KeyError", "TypeError"}

\* tracking.load_rovers on a file d: open() or ujson.load raise on a file that
\* is absent or holds no JSON (valid is FALSE)
load_rovers(d) ==
    LET r == IF d.valid THEN LoadLoop(d.content, 1, [objs |-> <<>>, rovers |-> <<>>, exc |-> "none"])
             ELSE [objs |-> <<>>, rovers |-> <<>>, exc |-> "OSError"]
    IN  [objs |-> r.objs, rovers |-> r.rovers, raised |-> r.exc # "none" /\ ~LoadCaught(r.exc)]

\* what the rovers file can hold at boot: nothing, one or two rovers saved
\* earlier, the same id twice, an entry without 'ut'
SavedEntry(i, lat, keys) ==
    [id |-> i, gps_data |-> [k \in keys |-> IF k = "lat" THEN lat ELSE IF k = "lon" THEN 20 ELSE IF k = "ut" THEN 1 ELSE 7],
     last_rssi |-> 0 - 90, last_track |-> 5, last_toa |-> 100]

RoverFiles ==
    {NoFile,
     [valid |-> TRUE, content |-> <<SavedEntry("r1", 10, {"lat", "lon", "ut", "sat"})>>],
     [valid |-> TRUE, content |-> <<SavedEntry("r1", 10, {"lat", "lon", "ut"}), SavedEntry("r1", 11, {"lat", "lon", "ut"})>>],
     [valid |-> TRUE, content |-> <<SavedEntry("r2", 10, {"lat", "lon"}), SavedEntry("r1", 10, {"lat", "lon", "ut"})>>]}

\* a mutant of RxSaves: the store is saved after every message
RxSaves_Always(created) == TRUE

\* tracking.save_rovers() is in the else branch, after tracking.Rover(...)
RxSaves(created) == created

\* BaseDeviceHandler._lora_rx, the part on the store: lines 94 to 103.  The
\* result is the heap of objects and the dict.
RxStore(os, rs, m, sig, t) ==
    IF ~m.ok \/ m.id = None
    THEN [objs |-> os, rovers |-> rs]
    ELSE LET rover == get_rover(rs, m.id)
         IN  IF rover # 0
             THEN [objs |-> [os EXCEPT ![rover] = update(@, m, sig.rssi, sig.toa, t)], rovers |-> rs]
             ELSE [objs |-> Append(os, Rover_init(m, sig.rssi, sig.toa, t)),
                   rovers |-> RoversSet(rs, m.id, Len(os) + 1)]

\* a mutant of HasTrackedId: a dict without 'id' goes on
HasTrackedId_NoIdCheck(m) == m.ok

\* lines 89 to 92: tracked_data is not None and tracked_data.get('id') is not
\* None.  (A frame that parses to something that is no dict raises at .get
\* and is caught at line 124: it is a frame with ok = FALSE here.)
HasTrackedId(m) == m.ok /\ m.id # None

\* a mutant of AutoSelects: every message selects its Rover
AutoSelects_Always(tracked) == TRUE

\* line 106: if self.tracked_rover is None
AutoSelects(tracked) == tracked = 0

\* BaseDeviceHandler._lora_rx, from its first line to the end of the work on
\* the store (line 113), as one step: there is no await before line 118
lora_rx_store(m, sig, fault) ==
    /\ rxs < MaxRx
    /\ rxs' = rxs + 1
    /\ LET valid == HasTrackedId(m)
           existing == valid /\ get_rover(rovers, m.id) # 0
           created == valid /\ ~existing
           st == RxStore(objs, rovers, m, sig, ticks_ms)
           saved == valid /\ RxSaves(created)
       IN  /\ objs' = st.objs
           /\ rovers' = st.rovers
           /\ disk' = IF saved THEN save_rovers(st.objs, st.rovers, disk, fault) ELSE disk
           /\ tracked_rover' = IF valid /\ AutoSelects(tracked_rover) THEN get_rover(st.rovers, m.id) ELSE tracked_rover
           /\ current_rover_index' =
                 IF valid /\ AutoSelects(tracked_rover) /\ Has(list_rovers(st.rovers), m.id)
                 THEN IndexOf(list_rovers(st.rovers), m.id)
                 ELSE current_rover_index
           /\ lastOp' = Op("rx", m, created, existing, saved,
                           /\ lastOp.op = "rx"
                           /\ lastOp.msg = m
                           /\ existing
                           /\ objs[get_rover(rovers, m.id)].last_rssi = sig.rssi
                           /\ objs[get_rover(rovers, m.id)].last_toa = sig.toa)
    /\ UNCHANGED saved_rovers_tick

\* BaseDeviceHandler._lora_rx called with a message, the rest of the device
\* at rest (the BLE notification and the display come after the store)
_lora_rx(m, sig, fault) ==
    /\ lora_rx_store(m, sig, fault)
    /\ UNCHANGED <<radioVars, busVars, obsVars, busObs, ioVars>>

\* a Rover object that nothing refers to any more: its memory is the
\* collector's
Freed == [id |-> None, gps_data |-> NoData, last_rssi |-> 0, last_track |-> 0, last_toa |-> 0]

\* the heap once the objects are gone that neither Rover._rovers nor
\* self.tracked_rover refers to
Unreferenced(os, rs, tracked) ==
    [i \in 1 .. Len(os) |->
        IF tracked = i \/ \E k \in 1 .. Len(rs) : rs[k].obj = i THEN os[i] ELSE Freed]

\* a mutant of TrackNext: nothing is done
TrackNext_Keep(rs, index, tracked) == [index |-> index, tracked |-> tracked]

\* a mutant of TrackNext: the index stays where it is
TrackNext_Stay(rs, index, tracked) ==
    IF Len(list_rovers(rs)) > 0
    THEN [index |-> index % Len(list_rovers(rs)), tracked |-> get_rover(rs, list_rovers(rs)[(index % Len(list_rovers(rs))) + 1])]
    ELSE [index |-> index, tracked |-> tracked]

\* BaseDeviceHandler._track_next: the index and the tracked object after it
TrackNext(rs, index, tracked) ==
    IF Len(list_rovers(rs)) > 0
    THEN LET i == (index + 1) % Len(list_rovers(rs))
         IN  [index |-> i, tracked |-> get_rover(rs, list_rovers(rs)[i + 1])]
    ELSE [index |-> index, tracked |-> tracked]

\* BaseDeviceHandler._button_bump
_button_bump ==
    /\ LET n == TrackNext(rovers, current_rover_index, tracked_rover)
       IN  /\ current_rover_index' = n.index
           /\ tracked_rover' = n.tracked
           /\ objs' = Unreferenced(objs, rovers, n.tracked)
    /\ lastOp' = Op("bump", NoMsg, FALSE, FALSE, FALSE, FALSE)
    /\ UNCHANGED <<rovers, saved_rovers_tick, disk, rxs>>
    /\ UNCHANGED <<radioVars, busVars, obsVars, busObs, ioVars>>

\* BaseDeviceHandler._button_long
_button_long(fault) ==
    /\ IF tracked_rover = 0
       THEN /\ lastOp' = Op("long", NoMsg, FALSE, FALSE, FALSE, FALSE)
            /\ UNCHANGED <<objs, rovers, disk, current_rover_index, tracked_rover>>
       ELSE LET rs == untrack_rover(rovers, objs[tracked_rover].id)
                n == TrackNext(rs, current_rover_index, tracked_rover)
            IN  /\ rovers' = rs
                /\ disk' = save_rovers(objs, rs, disk, fault)
                /\ current_rover_index' = n.index
                /\ tracked_rover' = n.tracked
                /\ objs' = Unreferenced(objs, rs, n.tracked)
                /\ lastOp' = Op("long", NoMsg, FALSE, FALSE, TRUE, FALSE)
    /\ UNCHANGED <<saved_rovers_tick, rxs>>
    /\ UNCHANGED <<radioVars, busVars, obsVars, busObs, ioVars>>

\* BaseDeviceHandler.run: one turn of its loop in which the save is due
run_save(fault) ==
    /\ ticks_diff(ticks_ms, saved_rovers_tick) > _ROVERS_SAVE_INTERVAL
    /\ disk' = save_rovers(objs, rovers, disk, fault)
    /\ saved_rovers_tick' = ticks_ms
    /\ lastOp' = Op("save", NoMsg, FALSE, FALSE, TRUE, FALSE)
    /\ UNCHANGED <<objs, rovers, current_rover_index, tracked_rover, rxs>>
    /\ UNCHANGED <<radioVars, busVars, obsVars, busObs, ioVars>>

\* the time between two store operations: just over the save interval
StoreTickSteps == {_ROVERS_SAVE_INTERVAL + 1}

\* time passes between two store operations (the run loop sleeps, no frame
\* arrives, no button is used)
Elapse(d) ==
    /\ ticks_used < MaxStoreTicks
    /\ now' = now + d
    /\ ticks_used' = ticks_used + 1
    /\ UNCHANGED <<last_send, send_lock, lora_ok, queue, spc, sframe, dpc, busVars, obsVars, busObs, storeVars, ioVars>>

\* after BaseDeviceHandler.__init__: the store is what load_rovers made of the
\* file, nothing is tracked
InitStore ==
    /\ now = 0
    /\ ticks_used = 0
    /\ last_send = ticks_ms
    /\ send_lock = FALSE
    /\ lora_ok = TRUE
    /\ queue = <<>>
    /\ spc = [s \in Senders |-> "idle"]
    /\ sframe = [s \in Senders |-> 0]
    /\ dpc = "get"
    /\ subscribers = BaseSubscriptions(TRUE)
    /\ active_tasks = <<>>
    /\ emit_tasks = <<>>
    /\ InitObs
    /\ InitIo
    /\ \E file \in RoverFiles :
          /\ disk = file
          /\ objs = load_rovers(file).objs
          /\ rovers = load_rovers(file).rovers
    /\ current_rover_index = 0
    /\ tracked_rover = 0
    /\ saved_rovers_tick = 0
    /\ rxs = 0
    /\ lastOp = NoOp

NextStore ==
    \/ \E f \in Frames, fault \in SaveFaults : _lora_rx(f.m, f.sig, fault)
    \/ _button_bump
    \/ \E fault \in SaveFaults : _button_long(fault)
    \/ \E fault \in SaveFaults : run_save(fault)
    \/ \E d \in StoreTickSteps : Elapse(d)

SpecStore == InitStore /\ [][NextStore]_vars

\* The entries a rovers file is made of here: written by to_dict with some
\* keys taken away, or something that is no such object at all
LoadIds == {"r1", "r2"}

GpsKeySets == {{"lat", "lon", "ut"}, {"lat", "lon", "ut", "sat"}, {"lat", "lon"}, {}}

EntryKeySets ==
    {{"id", "gps_data", "last_rssi", "last_track", "last_toa"},
     {"id", "gps_data", "last_rssi", "last_toa"},
     {"id", "gps_data", "last_track", "last_toa"},
     {"id", "gps_data", "last_rssi", "last_track"}}

Restrict(f, keys) == [k \in keys |-> f[k]]

LoadEntries ==
    {Restrict(SavedEntry(i, 10, g), e) : i \in LoadIds, g \in GpsKeySets, e \in EntryKeySets}
        \cup {Restrict(SavedEntry("r1", 10, {"lat", "lon", "ut"}), {"gps_data", "last_rssi", "last_track", "last_toa"}),
              [shape |-> "str"]}

\* the longest list in a rovers file
MaxFileLen == 2

LoadFiles ==
    {NoFile} \cup {[valid |-> TRUE, content |-> c] :
                      c \in UNION {[1 .. n -> LoadEntries] : n \in 0 .. MaxFileLen}}

\* before BaseDeviceHandler.__init__: nothing is in the store
InitLoad ==
    /\ now = 0
    /\ ticks_used = 0
    /\ last_send = ticks_ms
    /\ send_lock = FALSE
    /\ lora_ok = TRUE
    /\ queue = <<>>
    /\ spc = [s \in Senders |-> "idle"]
    /\ sframe = [s \in Senders |-> 0]
    /\ dpc = "get"
    /\ subscribers = BaseSubscriptions(TRUE)
    /\ active_tasks = <<>>
    /\ emit_tasks = <<>>
    /\ InitObs
    /\ InitIo
    /\ disk \in LoadFiles
    /\ objs = <<>>
    /\ rovers = <<>>
    /\ current_rover_index = 0
    /\ tracked_rover = 0
    /\ saved_rovers_tick = 0
    /\ rxs = 0
    /\ lastOp = NoOp

\* BaseDeviceHandler.__init__: tracking.load_rovers()
BaseDeviceHandler_init ==
    /\ lastOp.op = "none"
    /\ objs' = load_rovers(disk).objs
    /\ rovers' = load_rovers(disk).rovers
    /\ lastOp' = Op(IF load_rovers(disk).raised THEN "load raised" ELSE "load", NoMsg, FALSE, FALSE, FALSE, FALSE)
    /\ UNCHANGED <<current_rover_index, tracked_rover, saved_rovers_tick, disk, rxs>>
    /\ UNCHANGED <<radioVars, busVars, obsVars, busObs, ioVars>>

NextLoad == BaseDeviceHandler_init

SpecLoad == InitLoad /\ [][NextLoad]_vars

\* ------------------------------------------------- misc/thistothat.py
\* the longest payload and the longest secret, in bytes
MaxPayloadLen == 2

\* the bytes payloads and secrets are made of: ' ', 'a', '{' and the two
\* bytes of a character outside ASCII (U+00E9)
CodecBytes == {32, 97, 123, 195, 169}

ByteSeqs == UNION {[1 .. n -> CodecBytes] : n \in 0 .. MaxPayloadLen}

\* the continuation bytes a lead byte of 192 or more asks for
Utf8Need(c) == IF c >= 240 THEN 3 ELSE IF c >= 224 THEN 2 ELSE 1

RECURSIVE Utf8Loop(_, _, _)
Utf8Loop(p, i, need) ==
    IF i > Len(p) THEN need = 0
    ELSE IF need > 0 THEN (IF p[i] >= 128 /\ p[i] < 192 THEN Utf8Loop(p, i + 1, need - 1) ELSE FALSE)
    ELSE IF p[i] >= 248 THEN FALSE
    ELSE IF p[i] >= 192 THEN Utf8Loop(p, i + 1, Utf8Need(p[i]))
    ELSE IF p[i] >= 128 THEN FALSE
    ELSE Utf8Loop(p, i + 1, 0)

\* the check bytes.decode('utf-8') makes in MicroPython
utf8_check(p) == Utf8Loop(p, 1, 0)

\* A str is held as the bytes of its UTF-8 form: str.encode('utf-8') gives
\* these bytes, and bytes.decode('utf-8') gives the str of the same bytes or
\* raises when they are no UTF-8.
Strs == {b \in ByteSeqs : utf8_check(b)}

encode(string) == string

decode(bytes) ==
    IF utf8_check(bytes) THEN Ret("none", FALSE, bytes) ELSE Ret("UnicodeError", TRUE, <<>>)

\* thistothat.xor_encrypt_decrypt: i % len(key_bytes) raises on an empty key
\* when there is a byte to work on
xor_encrypt_decrypt(string, key) ==
    LET string_bytes == encode(string)
        key_bytes == encode(key)
    IN  IF Len(string_bytes) = 0 THEN Ret("none", FALSE, <<>>)
        ELSE IF Len(key_bytes) = 0 THEN Ret("ZeroDivisionError", TRUE, <<>>)
        ELSE Ret("none", FALSE,
                 [i \in 1 .. Len(string_bytes) |-> Xor(string_bytes[i], key_bytes[((i - 1) % Len(key_bytes)) + 1])])

\* string.replace(' ', '')
StrReplaceSpace(string) == SelectSeq(string, LAMBDA c : c # 32)

\* thistothat.message_pack: no try around the call
message_pack(string, secret) == xor_encrypt_decrypt(StrReplaceSpace(string), secret)

\* thistothat.message_unpack: an exception of decode or of the XOR is caught
\* and the function returns None
message_unpack(string, secret) ==
    LET d == decode(string)
        r == IF d.exc # "none" THEN d ELSE xor_encrypt_decrypt(d.value, secret)
    IN  IF r.exc # "none" THEN Ret("none", TRUE, <<>>) ELSE r

\* a caller packs cmsg with csecret
codec_pack ==
    /\ cpc = "start"
    /\ utf8_check(cmsg)
    /\ packed_string' = message_pack(cmsg, csecret)
    /\ cpc' = "packed"
    /\ UNCHANGED <<cmsg, csecret, unpacked_string>>
    /\ UNCHANGED <<radioVars, busVars, obsVars, busObs, storeVars, buttonVars>>

\* the frame message_pack returned is unpacked with the same secret
codec_unpack ==
    /\ cpc = "packed"
    /\ packed_string.exc = "none"
    /\ unpacked_string' = message_unpack(packed_string.value, csecret)
    /\ cpc' = "unpacked"
    /\ UNCHANGED <<cmsg, csecret, packed_string>>
    /\ UNCHANGED <<radioVars, busVars, obsVars, busObs, storeVars, buttonVars>>

\* cmsg is a frame from the radio and is unpacked
codec_receive ==
    /\ cpc = "start"
    /\ unpacked_string' = message_unpack(cmsg, csecret)
    /\ cpc' = "received"
    /\ UNCHANGED <<cmsg, csecret, packed_string>>
    /\ UNCHANGED <<radioVars, busVars, obsVars, busObs, storeVars, buttonVars>>

\* a base device at rest: nothing sent, received, published or stored
AtRest ==
    /\ now = 0
    /\ ticks_used = 0
    /\ last_send = ticks_ms
    /\ send_lock = FALSE
    /\ lora_ok = TRUE
    /\ queue = <<>>
    /\ spc = [s \in Senders |-> "idle"]
    /\ sframe = [s \in Senders |-> 0]
    /\ dpc = "get"
    /\ subscribers = BaseSubscriptions(TRUE)
    /\ active_tasks = <<>>
    /\ emit_tasks = <<>>
    /\ InitObs
    /\ InitStoreEmpty

InitCodec ==
    /\ AtRest
    /\ InitButtonIdle
    /\ cmsg \in ByteSeqs
    /\ csecret \in Strs
    /\ cpc = "start"
    /\ packed_string = NoRet
    /\ unpacked_string = NoRet

NextCodec ==
    \/ codec_pack
    \/ codec_unpack
    \/ codec_receive

SpecCodec == InitCodec /\ [][NextCodec]_vars

\* ------------------------------------------------- Device.check_button
_BUTTON_BUMP == 250

_BUTTON_SHORT == 1000

_BUTTON_LONG == 4000

_BUTTON_SLEEP == 5000

\* how often the button goes down
MaxPresses == 2

\* how many sleeps of check_button are followed
MaxButtonTicks == 7

\* how long await asyncio.sleep_ms(30) lasts before the loop goes on: 30 ms,
\* or longer when other tasks hold the processor
DebounceSteps == {30}

HoldSteps == {30, 219, 751, 1000, 1001, 2999}

\* how long await asyncio.sleep_ms(100) lasts
IdleSteps == {100}

\* the milliseconds that pass between the last elapsed = ... of the loop and
\* the one after it (no await lies between them)
Jitter == {0, 1}

\* a mutant of SleepDue: the threshold itself does not count
SleepDue_Strict(e) == e > _BUTTON_SLEEP

\* if elapsed >= _BUTTON_SLEEP
SleepDue(e) == e >= _BUTTON_SLEEP

\* a mutant of Classify: the thresholds themselves count
Classify_Closed(e) ==
    IF e <= _BUTTON_BUMP THEN <<"button.bump">>
    ELSE IF e >= _BUTTON_SHORT /\ e <= _BUTTON_LONG THEN <<"button.long">>
    ELSE <<>>

\* lines 196 to 203: the event published for a measured duration, if any
Classify(e) ==
    IF e < _BUTTON_BUMP THEN <<"button.bump">>
    ELSE IF e > _BUTTON_SHORT /\ e < _BUTTON_LONG THEN <<"button.long">>
    ELSE <<>>

\* how a press cycle ended: e1 is elapsed as the loop left it, e2 the
\* duration measured after the loop
PressEnd(e1, e2, events, how) == [e1 |-> e1, e2 |-> e2, events |-> events, how |-> how]

\* the user pushes the button
Press ==
    /\ button = _RELEASED
    /\ presses < MaxPresses
    /\ button' = _PRESSED
    /\ presses' = presses + 1
    /\ UNCHANGED <<bpc, start, elapsed, buttonLog, lastPress>>
    /\ UNCHANGED <<radioVars, busVars, obsVars, busObs, storeVars, codecVars>>

\* the user lets go of it
Release ==
    /\ button = _PRESSED
    /\ button' = _RELEASED
    /\ UNCHANGED <<bpc, start, elapsed, presses, buttonLog, lastPress>>
    /\ UNCHANGED <<radioVars, busVars, obsVars, busObs, storeVars, codecVars>>

\* line 179: if self.button.value() == _PRESSED
check_button_poll ==
    /\ bpc = "poll"
    /\ bpc' = IF button = _PRESSED THEN "debounce_sleep" ELSE "idle_sleep"
    /\ UNCHANGED <<button, start, elapsed, presses, buttonLog, lastPress>>
    /\ UNCHANGED <<radioVars, busVars, obsVars, busObs, storeVars, codecVars>>

\* line 180: await asyncio.sleep_ms(30)
check_button_debounce(d) ==
    /\ bpc = "debounce_sleep"
    /\ ticks_used < MaxButtonTicks
    /\ now' = now + d
    /\ ticks_used' = ticks_used + 1
    /\ bpc' = "resample"
    /\ UNCHANGED <<button, start, elapsed, presses, buttonLog, lastPress>>
    /\ UNCHANGED <<last_send, send_lock, lora_ok, queue, spc, sframe, dpc>>
    /\ UNCHANGED <<busVars, obsVars, busObs, storeVars, codecVars>>

\* a mutant of StillPressed: the second look at the pin is not made
StillPressed_Always(level) == TRUE

\* line 181: if self.button.value() == _PRESSED, after the debounce delay
StillPressed(level) == level = _PRESSED

\* lines 181 and 182: the second look at the pin; start = utime.ticks_ms()
check_button_resample ==
    /\ bpc = "resample"
    /\ IF StillPressed(button)
       THEN /\ start' = ticks_ms
            /\ bpc' = "while"
            /\ UNCHANGED lastPress
       ELSE /\ bpc' = "idle_sleep"
            /\ lastPress' = PressEnd(elapsed, Unbound, <<>>, "bounce")
            /\ UNCHANGED start
    /\ UNCHANGED <<button, elapsed, presses, buttonLog>>
    /\ UNCHANGED <<radioVars, busVars, obsVars, busObs, storeVars, codecVars>>

\* line 183: while self.button.value() == _PRESSED
check_button_while ==
    /\ bpc = "while"
    /\ bpc' = IF button = _PRESSED THEN "hold_sleep" ELSE "after"
    /\ UNCHANGED <<button, start, elapsed, presses, buttonLog, lastPress>>
    /\ UNCHANGED <<radioVars, busVars, obsVars, busObs, storeVars, codecVars>>

\* lines 184 to 193: await asyncio.sleep_ms(30), elapsed = ..., and when the
\* sleep threshold is reached create_task(emit('device.sleep')) and both breaks,
\* which end the coroutine
check_button_hold(d) ==
    /\ bpc = "hold_sleep"
    /\ ticks_used < MaxButtonTicks
    /\ now' = now + d
    /\ ticks_used' = ticks_used + 1
    /\ LET e == ticks_diff((now + d) % TICKS_PERIOD, start)
       IN  /\ elapsed' = e
           /\ IF SleepDue(e)
              THEN /\ buttonLog' = Append(buttonLog, "device.sleep")
                   /\ bpc' = "ended"
                   /\ lastPress' = PressEnd(e, Unbound, <<"device.sleep">>, "sleep")
              ELSE /\ bpc' = "while"
                   /\ UNCHANGED <<buttonLog, lastPress>>
    /\ UNCHANGED <<button, start, presses>>
    /\ UNCHANGED <<last_send, send_lock, lora_ok, queue, spc, sframe, dpc>>
    /\ UNCHANGED <<busVars, obsVars, busObs, storeVars, codecVars>>

\* lines 192 to 203, after the loop was left by its condition: elapsed is read
\* (a NameError ends the coroutine when the loop body never ran), measured
\* again, and the event for it is published
check_button_classify(j) ==
    /\ bpc = "after"
    /\ IF elapsed = Unbound
       THEN /\ bpc' = "crashed"
            /\ lastPress' = PressEnd(Unbound, Unbound, <<>>, "NameError")
            /\ UNCHANGED <<now, elapsed, buttonLog>>
       ELSE IF SleepDue(elapsed)
       THEN /\ bpc' = "ended"
            /\ lastPress' = PressEnd(elapsed, Unbound, <<>>, "break")
            /\ UNCHANGED <<now, elapsed, buttonLog>>
       ELSE LET e == ticks_diff((now + j) % TICKS_PERIOD, start)
            IN  /\ now' = now + j
                /\ elapsed' = e
                /\ buttonLog' = buttonLog \o Classify(e)
                /\ lastPress' = PressEnd(elapsed, e, Classify(e), "released")
                /\ bpc' = "idle_sleep"
    /\ UNCHANGED <<button, start, presses>>
    /\ UNCHANGED <<ticks_used, last_send, send_lock, lora_ok, queue, spc, sframe, dpc>>
    /\ UNCHANGED <<busVars, obsVars, busObs, storeVars, codecVars>>

\* line 204: await asyncio.sleep_ms(100)
check_button_idle(d) ==
    /\ bpc = "idle_sleep"
    /\ ticks_used < MaxButtonTicks
    /\ now' = now + d
    /\ ticks_used' = ticks_used + 1
    /\ bpc' = "poll"
    /\ UNCHANGED <<button, start, elapsed, presses, buttonLog, lastPress>>
    /\ UNCHANGED <<last_send, send_lock, lora_ok, queue, spc, sframe, dpc>>
    /\ UNCHANGED <<busVars, obsVars, busObs, storeVars, codecVars>>

\* main() has made the check_button task; the button is up
InitButton ==
    /\ AtRest
    /\ InitCodecIdle
    /\ button = _RELEASED
    /\ bpc = "poll"
    /\ start = 0
    /\ elapsed = Unbound
    /\ presses = 0
    /\ buttonLog = <<>>
    /\ lastPress = NoPress

NextButton ==
    \/ Press
    \/ Release
    \/ check_button_poll
    \/ \E d \in DebounceSteps : check_button_debounce(d)
    \/ check_button_resample
    \/ check_button_while
    \/ \E d \in HoldSteps : check_button_hold(d)
    \/ \E j \in Jitter : check_button_classify(j)
    \/ \E d \in IdleSteps : check_button_idle(d)

SpecButton == InitButton /\ [][NextButton]_vars

\* ------------------------------- EventBus.emit with handlers that unsubscribe
\* sync handlers that call bus.unsubscribe(name, ...) for the name they are
\* invoked for: one takes itself off, one takes h_sync off
UnsubHandlers == {"h_unsub_self", "h_unsub_sync"}

\* the handler such a handler passes to unsubscribe
UnsubTarget(h) == IF h = "h_unsub_self" THEN "h_unsub_self" ELSE "h_sync"

\* the handlers a name has when a publish begins
DispatchHandlers == {"h_sync", "h_coro", "h_raises"} \cup UnsubHandlers

MaxDispatchLen == 3

DispatchLists == UNION {[1 .. n -> DispatchHandlers] : n \in 1 .. MaxDispatchLen}

RECURSIVE EmitLiveLoop(_, _, _)
\* for handler in self.subscribers[event_name]: the loop reads the list
\* object itself, position by position, and a handler's
\* self.subscribers[event_name].remove(handler) changes that object
EmitLiveLoop(list, i, acc) ==
    IF i > Len(list)
    THEN [acc EXCEPT !.list = list]
    ELSE LET h == list[i]
             a1 == [acc EXCEPT !.invoked = Append(@, h)]
             a2 == CASE Invoke(h) = "raises" -> EmitExcept(a1, h)
                     [] Invoke(h) = "coro" -> [a1 EXCEPT !.tasks = Append(@, h)]
                     [] OTHER -> a1
         IN  EmitLiveLoop(IF h \in UnsubHandlers THEN RemoveFirst(list, UnsubTarget(h)) ELSE list, i + 1, a2)

\* EventBus.emit for a name that has subscribers: what was invoked and
\* scheduled, and the list the name has afterwards
emit_live(subs, name) ==
    EmitLiveLoop(subs[name], 1,
                 [handlers |-> subs[name], invoked |-> <<>>, tasks |-> <<>>, raised |-> FALSE, list |-> subs[name]])

\* some task runs await bus.emit(n), up to emit's await asyncio.sleep(0);
\* unsubscribe deletes the name's entry when its list has become empty
publish_live(n) ==
    /\ n \in DOMAIN subscribers
    /\ LET e == emit_live(subscribers, n)
       IN  /\ Len(active_tasks) + Len(e.tasks) <= MaxTasks
           /\ active_tasks' = active_tasks \o NewTasks(e.tasks)
           /\ subscribers' = IF e.list = <<>> THEN DictDel(subscribers, n) ELSE DictSet(subscribers, n, e.list)
           /\ lastEmit' = [name |-> n, handlers |-> e.handlers, invoked |-> e.invoked, raised |-> e.raised]
           /\ ppc' = "sleep"
    /\ UNCHANGED <<radioVars, emit_tasks>>
    /\ UNCHANGED <<txLog, txPublished, calls, lastCall, ret, lastOkAt, putLog, drainLog, irqs, foreign>>
    /\ UNCHANGED <<storeVars, ioVars>>

\* the bus with one name subscribed to
InitDispatch ==
    /\ now = 0
    /\ ticks_used = 0
    /\ last_send = 0
    /\ send_lock = FALSE
    /\ lora_ok = FALSE
    /\ queue = <<>>
    /\ spc = [s \in Senders |-> "idle"]
    /\ sframe = [s \in Senders |-> 0]
    /\ dpc = "get"
    /\ \E l \in DispatchLists : subscribers = DictSet(EmptyDict, "x", l)
    /\ active_tasks = <<>>
    /\ emit_tasks = <<>>
    /\ InitObs
    /\ InitIo
    /\ InitStoreEmpty

NextDispatch ==
    \/ \E n \in BusNames : publish_live(n)
    \/ publish_return
    \/ \E i \in 1 .. MaxTasks : task_done(i)
    \/ task_cleaner

SpecDispatch == InitDispatch /\ [][NextDispatch]_vars

\* ------------------------------------------ BaseDeviceHandler.run
\* await asyncio.sleep_ms(max(1, 250 - ...)): the loop takes a turn every 250 ms
LoopPeriod == 250

\* how many steps of the run loop are followed
MaxTurns == 4

\* the turns taken in one step: one, or as many as fit in a save interval (one
\* less, or exactly)
LoopTurns == {1, (_ROVERS_SAVE_INTERVAL \div LoopPeriod) - 1, _ROVERS_SAVE_INTERVAL \div LoopPeriod}

\* what utime.ticks_ms() reads when the firmware starts: the counter has an
\* arbitrary reference point, and machine.soft_reset() does not restart it
BootTicks == {0, TICKS_HALF}

\* if utime.ticks_diff(utime.ticks_ms(), self.saved_rovers_tick) > _ROVERS_SAVE_INTERVAL
SaveDue(t, saved) == ticks_diff(t, saved) > _ROVERS_SAVE_INTERVAL

\* the n turns after real time t0 find no save due
NoneDue(t0, n, saved) ==
    {j \in 1 .. n : SaveDue((t0 + j * LoopPeriod) % TICKS_PERIOD, saved)} = {}

\* BaseDeviceHandler.run: k turns of the loop, of which the first k - 1 find no
\* save due; the last one saves when the save is due.  Saving succeeds.
run(k) ==
    /\ ticks_used < MaxTurns
    /\ NoneDue(now, k - 1, saved_rovers_tick)
    /\ now' = now + k * LoopPeriod
    /\ ticks_used' = ticks_used + 1
    /\ IF SaveDue((now + k * LoopPeriod) % TICKS_PERIOD, saved_rovers_tick)
       THEN /\ disk' = save_rovers(objs, rovers, disk, "none")
            /\ saved_rovers_tick' = (now + k * LoopPeriod) % TICKS_PERIOD
            /\ lastOp' = Op("save", NoMsg, FALSE, FALSE, TRUE, FALSE)
       ELSE /\ lastOp' = Op("turn", NoMsg, FALSE, FALSE, FALSE, FALSE)
            /\ UNCHANGED <<disk, saved_rovers_tick>>
    /\ UNCHANGED <<objs, rovers, current_rover_index, tracked_rover, rxs>>
    /\ UNCHANGED <<last_send, send_lock, lora_ok, queue, spc, sframe, dpc>>
    /\ UNCHANGED <<busVars, obsVars, busObs, ioVars>>

\* the firmware has started at some reading of the tick counter, with no
\* rovers file; BaseDeviceHandler.__init__ has set saved_rovers_tick = 0
InitSave ==
    /\ now \in BootTicks
    /\ ticks_used = 0
    /\ last_send = 0
    /\ send_lock = FALSE
    /\ lora_ok = TRUE
    /\ queue = <<>>
    /\ spc = [s \in Senders |-> "idle"]
    /\ sframe = [s \in Senders |-> 0]
    /\ dpc = "get"
    /\ subscribers = BaseSubscriptions(TRUE)
    /\ active_tasks = <<>>
    /\ emit_tasks = <<>>
    /\ InitObs
    /\ InitIo
    /\ InitStoreEmpty

NextSave ==
    \/ \E f \in Frames : _lora_rx(f.m, f.sig, "none")
    \/ \E k \in LoopTurns : run(k)

SpecSave == InitSave /\ [][NextSave]_vars

\* ------------------- the receive path down to the store: SpecOrder
\* The transceiver's callback, the drain task and the tasks emit makes of
\* BaseDeviceHandler._lora_rx, on a base station with a transceiver.

\* the entry the callback enqueues for a frame: the packet (by what it
\* decodes to), its signal and its air time
RxEntry(f) == [tag |-> "tuple", items |-> <<f.m, f.sig.rssi, f.sig.toa>>]

\* _rx_tx_cb on RX_DONE, without a receive error and with room in the queue
rx_done(f) ==
    /\ Len(putLog) < MaxRx
    /\ irqs' = irqs + 1
    /\ queue' = CbEnqueue(queue, RxEntry(f), FALSE, FALSE)
    /\ putLog' = Append(putLog, RxEntry(f))
    /\ UNCHANGED <<now, ticks_used, last_send, send_lock, lora_ok, spc, sframe, dpc, busVars>>
    /\ UNCHANGED <<txLog, txPublished, calls, lastCall, ret, lastOkAt, drainLog, foreign, lastEmit>>
    /\ UNCHANGED <<busObs, storeVars, ioVars>>

\* the tasks emit makes of the coroutines its handlers return, each with the
\* arguments of the call; pc is where the coroutine stands: "ready" (not
\* started), "ble" (at its await, line 118) or "done"
RxTasks(hs, args) == [i \in 1 .. Len(hs) |-> [h |-> hs[i], done |-> FALSE, args |-> args, pc |-> "ready"]]

\* the tasks of 'lora.rx' handlers that have not started
Unstarted(tasks) == {j \in 1 .. Len(tasks) : tasks[j].h = "Base._lora_rx" /\ tasks[j].pc = "ready"}

\* a mutant of ReadyAfterSleep: the task coming out of sleep(0) may run before
\* the tasks that were ready before it
ReadyAfterSleep_Overtakes(tasks) == TRUE

\* uasyncio's run queue is first-in-first-out among ready tasks: the task
\* that goes through await asyncio.sleep(0) at the end of emit is queued
\* behind the tasks emit has just made, and goes on after they have started
ReadyAfterSleep(tasks) == Unstarted(tasks) = {}

\* check_incoming_queue taking a three-item entry: lines 163 to 177, up to
\* the await asyncio.sleep(0) in emit
check_incoming_queue_rx ==
    /\ dpc = "get"
    /\ queue # <<>>
    /\ LET item == QueueGet(queue).item
           e == emit(subscribers, "lora.rx")
       IN  /\ ~IsNone(item) /\ ~Malformed(item)
           /\ queue' = QueueGet(queue).rest
           /\ drainLog' = Append(drainLog, [item |-> item, act |-> "publish", args |-> RxArgs(item)])
           /\ dpc' = IF e.yields THEN "emit_wait" ELSE "get"
           /\ emit_tasks' = Append(emit_tasks, "device.led.pulse")
           /\ active_tasks' = active_tasks \o RxTasks(e.tasks, RxArgs(item))
           /\ lastEmit' = [name |-> "lora.rx", handlers |-> e.handlers, invoked |-> e.invoked, raised |-> e.raised]
    /\ UNCHANGED <<now, ticks_used, last_send, send_lock, lora_ok, spc, sframe, subscribers>>
    /\ UNCHANGED <<txLog, txPublished, calls, lastCall, ret, lastOkAt, putLog, irqs, foreign>>
    /\ UNCHANGED <<busObs, storeVars, ioVars>>

\* a mutant of StoreStep: the store is worked on after the await
StoreStep_AfterAwait(pc) == pc = "ble"

\* the position from which a run of _lora_rx works on the store: its start
\* (lines 86 to 113 hold no await)
StoreStep(pc) == pc = "ready"

\* the task of _lora_rx runs from its start to its first suspension point:
\* the await at line 118 when the message has an id, its end otherwise
lora_rx_start(i, fault) ==
    /\ i \in Unstarted(active_tasks)
    /\ LET a == active_tasks[i].args
           m == a[1]
       IN  /\ IF StoreStep("ready")
              THEN lora_rx_store(m, [rssi |-> a[2], toa |-> a[3]], fault)
              ELSE UNCHANGED storeVars
           /\ active_tasks' = [active_tasks EXCEPT ![i] =
                 IF HasTrackedId(m) THEN [@ EXCEPT !.pc = "ble"] ELSE [@ EXCEPT !.pc = "done", !.done = TRUE]]
    /\ UNCHANGED <<radioVars, subscribers, emit_tasks, obsVars, busObs, ioVars>>

\* the BLE notification is over: _lora_rx goes on from line 118 to its end
lora_rx_resume(i, fault) ==
    /\ i \in 1 .. Len(active_tasks)
    /\ active_tasks[i].h = "Base._lora_rx"
    /\ active_tasks[i].pc = "ble"
    /\ LET a == active_tasks[i].args
       IN  IF StoreStep("ble")
           THEN lora_rx_store(a[1], [rssi |-> a[2], toa |-> a[3]], fault)
           ELSE UNCHANGED storeVars
    /\ active_tasks' = [active_tasks EXCEPT ![i] = [@ EXCEPT !.pc = "done", !.done = TRUE]]
    /\ UNCHANGED <<radioVars, subscribers, emit_tasks, obsVars, busObs, ioVars>>

\* the frames of the receive path: two messages for r1 that differ, one for
\* r2, one without an id
OrderFrames ==
    {f \in Frames : f.sig = Weak \/ f.m.id = "r2"}

InitOrder ==
    /\ now = 0
    /\ ticks_used = 0
    /\ last_send = ticks_ms
    /\ send_lock = FALSE
    /\ lora_ok = TRUE
    /\ queue = <<>>
    /\ spc = [s \in Senders |-> "idle"]
    /\ sframe = [s \in Senders |-> 0]
    /\ dpc = "get"
    /\ subscribers = BaseSubscriptions(TRUE)
    /\ active_tasks = <<>>
    /\ emit_tasks = <<>>
    /\ InitObs
    /\ InitIo
    /\ InitStoreEmpty

NextOrder ==
    \/ \E f \in OrderFrames : rx_done(f)
    \/ check_incoming_queue_rx
    \/ ReadyAfterSleep(active_tasks) /\ drain_resume
    \/ run_emit_task
    \/ \E i \in 1 .. Len(active_tasks), fault \in SaveFaults : lora_rx_start(i, fault)
    \/ \E i \in 1 .. Len(active_tasks), fault \in SaveFaults : lora_rx_resume(i, fault)

SpecOrder == InitOrder /\ [][NextOrder]_vars

\* The cursor on a store of up to three rovers: the file at boot holds two or
\* three of them, and the button is used.
CursorFiles ==
    {[valid |-> TRUE, content |-> <<SavedEntry("r2", 10, {"lat", "lon", "ut"}), SavedEntry("r1", 10, {"lat", "lon", "ut"})>>],
     [valid |-> TRUE, content |-> <<SavedEntry("r1", 10, {"lat", "lon", "ut"}), SavedEntry("r2", 10, {"lat", "lon", "ut"}),
                                    SavedEntry("r3", 10, {"lat", "lon", "ut"})>>]}

InitCursor ==
    /\ now = 0
    /\ ticks_used = 0
    /\ last_send = ticks_ms
    /\ send_lock = FALSE
    /\ lora_ok = TRUE
    /\ queue = <<>>
    /\ spc = [s \in Senders |-> "idle"]
    /\ sframe = [s \in Senders |-> 0]
    /\ dpc = "get"
    /\ subscribers = BaseSubscriptions(TRUE)
    /\ active_tasks = <<>>
    /\ emit_tasks = <<>>
    /\ InitObs
    /\ InitIo
    /\ \E file \in CursorFiles :
          /\ disk = file
          /\ objs = load_rovers(file).objs
          /\ rovers = load_rovers(file).rovers
    /\ current_rover_index = 0
    /\ tracked_rover = 0
    /\ saved_rovers_tick = 0
    /\ rxs = 0
    /\ lastOp = NoOp

NextCursor ==
    \/ _button_bump
    \/ \E fault \in SaveFaults : _button_long(fault)
    \/ \E fault \in SaveFaults : run_save(fault)
    \/ \E d \in StoreTickSteps : Elapse(d)

SpecCursor == InitCursor /\ [][NextCursor]_vars

\* ---------------------------------------------------------------- claims
Idle == \A s \in Senders : spc[s] = "idle"

InFlight == {s \in Senders : spc[s] = "emit_wait"}

\* C1: any two frames handed to the transceiver are at least the rate-limit
\* interval apart in real time, and a send_message call made less than the
\* interval after the latest successful send is rejected by the throttle:
\* it does none of the steps of a send and returns None.
C1_RateLimit ==
    /\ \A i, j \in 1 .. Len(txLog) : i < j => txLog[j].at - txLog[i].at >= RateLimitMs
    /\ (lastCall.by # None /\ lastCall.sinceOk >= 0 /\ lastCall.sinceOk < RateLimitMs)
          => /\ lastCall.outcome = "limited"
             /\ lastCall.steps = <<>>
             /\ ret[lastCall.by].kind = "none"

\* two transmissions were made and a third call, within the interval of the
\* second, was rejected
C1_Witness ==
    /\ Len(txLog) >= 2
    /\ lastCall.outcome = "limited"
    /\ lastCall.sinceOk >= 0
    /\ lastCall.sinceOk < RateLimitMs

\* C2 (as claimed): a send_message call made when no successful send has
\* completed within the preceding interval (none at all included), with the
\* lock free and a transceiver that works, transmits.
C2_OnlyAfterSuccess ==
    (/\ lastCall.by # None
     /\ (lastCall.sinceOk < 0 \/ lastCall.sinceOk >= RateLimitMs)
     /\ ~lastCall.lock
     /\ lastCall.lora
     /\ lastCall.fault = "none")
        => lastCall.outcome = "sent"

\* C3: at most one send_message call is between taking the lock and releasing
\* it, and a call made while the lock is held does none of the steps of a send,
\* returns None and leaves the lock, its holder and _last_send as they were.
C3_MutualExclusion ==
    /\ [](Cardinality(InFlight) <= 1)
    /\ [][(calls' # calls /\ send_lock)
             => /\ lastCall'.lock
                /\ lastCall'.outcome \in {"limited", "blocked"}
                /\ lastCall'.steps = <<>>
                /\ ret'[lastCall'.by].kind = "none"
                /\ send_lock'
                /\ InFlight' = InFlight
                /\ last_send' = last_send
                /\ txLog' = txLog
                /\ txPublished' = txPublished]_vars

\* a call found the lock held by a suspended call, was refused for that reason,
\* and the first caller still holds the lock
C3_Witness ==
    /\ lastCall.lock
    /\ ~lastCall.limited
    /\ lastCall.outcome = "blocked"
    /\ send_lock
    /\ Cardinality(InFlight) = 1
    /\ lastCall.by \notin InFlight

\* C4: whenever no send_message call is in progress the lock is free, so every
\* call that took the lock released it, whether the transceiver call returned
\* or raised; a call is refused for the lock only while another call holds it.
C4_LockReleased ==
    /\ Idle => ~send_lock
    /\ send_lock => Cardinality(InFlight) = 1
    /\ (lastCall.outcome = "blocked" /\ lastCall.lora) => lastCall.lock

\* a transceiver call raised in one caller's send, and a later call by the
\* other caller took the lock, transmitted and returned
C4_Witness ==
    /\ ret["gps_fix_1"].outcome = "failed"
    /\ lastCall.by = "gps_fix_2"
    /\ lastCall.outcome = "sent"
    /\ ret["gps_fix_2"].kind = "toa"
    /\ Idle
    /\ ~send_lock

\* C5: there is one 'lora.tx' publication per frame handed to the transceiver,
\* made after the hand-over; a call that returned a time-on-air returned that of
\* its own frame and stamped _last_send with the tick of its return; a call
\* that was rejected or whose pack or transceiver call raised published nothing.
C5_PublishOnSuccess ==
    /\ txPublished = Len(txLog)
    /\ lastCall.outcome = "sent"
          => \E i, j \in 1 .. Len(lastCall.steps) :
                /\ i < j
                /\ lastCall.steps[i] = "send"
                /\ lastCall.steps[j] = "emit"
                /\ \A k \in 1 .. Len(lastCall.steps) : lastCall.steps[k] = "emit" => k = j
    /\ lastCall.outcome \in {"limited", "blocked", "failed"} => ~Has(lastCall.steps, "emit")
    /\ \A s \in Senders :
          /\ ret[s].kind = "toa" => ret[s].outcome = "sent" /\ ret[s].val = _get_toa(FrameOf(s))
          /\ ret[s].outcome = "sent" => ret[s].kind \in {"toa", "pending"}
    /\ lastOkAt >= 0 => last_send = lastOkAt % TICKS_PERIOD

\* a send returned its time-on-air after being suspended in the publication,
\* and a later call failed in the transceiver
C5_Witness ==
    /\ ret["gps_fix_1"].kind = "toa"
    /\ lastEmit.name = "lora.tx"
    /\ lastEmit.invoked = <<"Rover._lora_tx">>
    /\ lastCall.by = "gps_fix_2"
    /\ lastCall.outcome = "failed"
    /\ txPublished = 1

\* C6: a send_message call whose pack or transceiver call raises returns None
\* to its caller (the exception does not leave send_message), publishes
\* nothing, hands no frame over and leaves _last_send as it was.
C6_FailureContained ==
    [][(calls' # calls /\ lastCall'.outcome = "failed")
          => /\ ret'[lastCall'.by].kind = "none"
             /\ txPublished' = txPublished
             /\ txLog' = txLog
             /\ last_send' = last_send
             /\ lastOkAt' = lastOkAt
             /\ ~send_lock']_vars

\* the transceiver call raised, and the next call, made without waiting,
\* transmitted
C6_Witness ==
    /\ ret["gps_fix_1"].outcome = "failed"
    /\ lastCall.by = "gps_fix_2"
    /\ lastCall.outcome = "sent"
    /\ lastCall.at = RateLimitMs
    /\ ticks_used = 1

\* what the interrupt handler enqueues: a tuple of three items
ThreeTuple(item) == item.tag = "tuple" /\ Len(item.items) = 3

Taken == [i \in 1 .. Len(drainLog) |-> drainLog[i].item]

Published == SelectSeq(drainLog, LAMBDA d : d.act = "publish")

\* C7: the entries taken by the drain task followed by those still queued are
\* the entries put, in the order they were put; the 'lora.rx' publications are,
\* in order and one each, the three-item entries taken, each with its own
\* frame, signal and air time.
C7_FifoExactlyOnce ==
    /\ putLog = Taken \o queue
    /\ LET wf == SelectSeq(Taken, ThreeTuple)
       IN  /\ Len(Published) = Len(wf)
           /\ \A i \in 1 .. Len(wf) :
                 Published[i].args = <<wf[i].items[1], wf[i].items[2], wf[i].items[3]>>

\* two different frames were received, the second while the drain task was
\* suspended in the publication of the first, and both were published
C7_Witness ==
    /\ Len(Published) = 2
    /\ Published[1].args[1] # Published[2].args[1]
    /\ irqs = 2
    /\ queue = <<>>

\* C8: an entry that is not a three-item tuple is skipped: nothing is published
\* for it, and the drain task goes on; every three-item entry taken is
\* published, also after a skipped one.
C8_MalformedSkipped ==
    /\ dpc # "dead"
    /\ \A i \in 1 .. Len(drainLog) :
          drainLog[i].act = IF ThreeTuple(drainLog[i].item) THEN "publish" ELSE "skip"

\* a malformed entry was skipped and an entry received after it was published
C8_Witness ==
    \E i, j \in 1 .. Len(drainLog) :
        /\ i < j
        /\ drainLog[i].act = "skip"
        /\ drainLog[i].item.tag = "tuple"
        /\ drainLog[j].act = "publish"

\* the shared state other than the receive queue
cbUntouched == <<now, ticks_used, last_send, send_lock, lora_ok, spc, sframe, dpc, subscribers, active_tasks, emit_tasks, txLog, txPublished, calls, lastCall, ret, lastOkAt, drainLog, foreign, lastEmit, busObs, storeVars, ioVars>>

\* C9: a step of the transceiver callback changes no shared state but the
\* queue; on receive-complete without a receive error and without an enqueue
\* failure it appends the one entry (frame, signal, air time), otherwise, and
\* on send-complete, it leaves the queue as it was.
C9_CallbackFrame ==
    [][/\ irqs' # irqs => UNCHANGED cbUntouched
       /\ \A events \in SUBSET {"RX_DONE", "TX_DONE"}, p \in Packets, rssi \in RssiValues, err \in BOOLEAN, full \in BOOLEAN :
             _rx_tx_cb(events, p, rssi, err, full)
                => queue' = IF "RX_DONE" \in events /\ ~err /\ ~full
                            THEN Append(queue, [tag |-> "tuple", items |-> <<p, rssi, getTimeOnAir(p)>>])
                            ELSE queue]_vars

\* the callback fired twice while a send held the lock: once it enqueued, once
\* it did not
C9_Witness ==
    /\ send_lock
    /\ irqs = 2
    /\ Len(queue) = 1
    /\ ThreeTuple(queue[1])

\* C10: a publish invokes every handler of the name's list, in order, also
\* those registered after a handler that raised, and no exception leaves emit.
C10_Isolation ==
    lastEmit.name # None => (~lastEmit.raised /\ lastEmit.invoked = lastEmit.handlers)

\* a raising handler was registered before another handler, and both were
\* invoked by one publish
C10_Witness ==
    /\ Len(lastEmit.handlers) = 2
    /\ lastEmit.handlers[1] = "h_raises"
    /\ lastEmit.handlers[2] # "h_raises"
    /\ lastEmit.invoked = lastEmit.handlers

\* a handler that is a plain function: its call runs it to completion
IsSync(h) == HandlerKind(h) = "sync"

\* the entries of the pending set whose work is not complete
Pending(tasks) == SelectSeq(tasks, LAMBDA t : ~t.done)

HasDone == \E i \in 1 .. Len(active_tasks) : active_tasks[i].done

\* C11: when emit has returned to the publisher, every plain-function handler
\* of the name's list has been called, once for each of its registrations and
\* in order, and has run to completion; the coroutines the same publish
\* scheduled may still be incomplete.
C11_ImmediateBeforeReturn ==
    ppc = "returned"
        => SelectSeq(lastEmit.invoked, IsSync) = SelectSeq(lastEmit.handlers, IsSync)

\* emit has returned from a publish to a plain function and a coroutine, and
\* the pending set is full of incomplete work (so the coroutine this publish
\* scheduled is among it)
C11_Witness ==
    /\ ppc = "returned"
    /\ \E i, j \in 1 .. Len(lastEmit.handlers) :
          IsSync(lastEmit.handlers[i]) /\ HandlerKind(lastEmit.handlers[j]) = "coro"
    /\ Len(active_tasks) = MaxTasks
    /\ ~HasDone

\* C12: a publish adds every coroutine it schedules to the pending set, a sweep
\* (by task_cleaner or by _shutdown) leaves the incomplete entries as they are,
\* and the number of incomplete entries goes down only when a task completes.
C12_PendingTracked ==
    [][/\ \A n \in BusNames :
             publish(n) => Pending(active_tasks') = Pending(active_tasks) \o NewTasks(emit(subscribers, n).tasks)
       /\ (task_cleaner \/ _shutdown) => Pending(active_tasks') = Pending(active_tasks)
       /\ Len(Pending(active_tasks')) < Len(Pending(active_tasks))
             => \E i \in 1 .. Len(active_tasks) : task_done(i)]_vars

\* one publish scheduled two coroutines; one has completed and was swept, the
\* other is incomplete and still in the pending set
C12_Witness ==
    /\ lastEmit.handlers = <<"h_coro", "h_coro">>
    /\ lastEmit.invoked = lastEmit.handlers
    /\ active_tasks = <<[h |-> "h_coro", done |-> FALSE]>>

\* C13: with the task_cleaner task scheduled fairly, a pending set that holds
\* completed entries is eventually without them.
C13_SweptEventually == HasDone ~> ~HasDone

\* a coroutine was scheduled by the latest publish, emit returned, and the
\* pending set is empty again
C13_Witness ==
    /\ ppc = "returned"
    /\ Has(lastEmit.invoked, "h_coro")
    /\ active_tasks = <<>>

\* how many times h is in a handler list
Count(seq, h) == Len(SelectSeq(seq, LAMBDA x : x = h))

\* C14: no name of the registry maps to an empty list; unsubscribe of a
\* registered handler takes one registration of it from the name's list and
\* leaves the other handlers and names as they were, deleting the name's entry
\* when the list becomes empty; unsubscribe of a handler or name that is not
\* registered leaves the registry unchanged.
C14_NoEmptyList ==
    /\ [](\A n \in DOMAIN subscribers : subscribers[n] # <<>>)
    /\ [][\A n \in BusNames, h \in TestHandlers :
             unsubscribe(n, h) =>
                IF UnsubscribeResult(subscribers, n, h) = "True"
                THEN /\ IF subscribers[n] = <<h>>
                        THEN n \notin DOMAIN subscribers'
                        ELSE /\ n \in DOMAIN subscribers'
                             /\ Count(subscribers'[n], h) = Count(subscribers[n], h) - 1
                             /\ SelectSeq(subscribers'[n], LAMBDA x : x # h) = SelectSeq(subscribers[n], LAMBDA x : x # h)
                     /\ \A m \in (DOMAIN subscribers) \ {n} :
                           m \in DOMAIN subscribers' /\ subscribers'[m] = subscribers[m]
                ELSE subscribers' = subscribers]_vars

\* "x" was published to a handler and has no entry any more, while "y" keeps
\* its handler
C14_Witness ==
    /\ lastEmit.name = "x"
    /\ lastEmit.handlers = <<"h_sync">>
    /\ DOMAIN subscribers = {"y"}
    /\ subscribers["y"] = <<"h_raises">>

\* C15 (as claimed): after unsubscribe(n, h) has returned True, a publish of n
\* made before any further subscribe does not invoke h.
C15_UnregisteredIsTerminal ==
    [][\A n \in BusNames, h \in TestHandlers :
          (unsubscribe(n, h) /\ UnsubscribeResult(subscribers, n, h) = "True")
             => ~Has(emit(subscribers', n).invoked, h)]_vars

\* the ids in the store
Ids(rs) == {Entries(rs)[i].key : i \in 1 .. Len(Entries(rs))}

\* a message that decodes and carries an id
Valid(m) == m.ok /\ m.id # None

\* C16: when a message for an id already in the store is processed, the Peer
\* object stays the one stored under the id, every position field absent from
\* the message keeps its value, every field present takes the message's
\* value, and signal, air time and last_track are those of this message.
C16_MergeKeepsFields ==
    [][\A f \in Frames, fault \in SaveFaults :
          (_lora_rx(f.m, f.sig, fault) /\ Valid(f.m) /\ f.m.id \in Ids(rovers))
             => LET o == get_rover(rovers, f.m.id)
                    old == objs[o]
                    new == objs'[o]
                IN  /\ get_rover(rovers', f.m.id) = o
                    /\ new.id = old.id
                    /\ DOMAIN new.gps_data = (DOMAIN old.gps_data) \cup (DOMAIN f.m.data)
                    /\ \A k \in (DOMAIN old.gps_data) \ (DOMAIN f.m.data) : new.gps_data[k] = old.gps_data[k]
                    /\ \A k \in DOMAIN f.m.data : new.gps_data[k] = f.m.data[k]
                    /\ new.last_rssi = f.sig.rssi
                    /\ new.last_toa = f.sig.toa
                    /\ new.last_track = now % TICKS_PERIOD]_vars

\* {lat: 10, lon: 20} then {sat: 7} for the same id: lat = 10, lon = 20, sat = 7
C16_Witness ==
    /\ lastOp.op = "rx"
    /\ lastOp.updated
    /\ DOMAIN lastOp.msg.data = {"sat"}
    /\ \E o \in 1 .. Len(objs) :
          /\ get_rover(rovers, lastOp.msg.id) = o
          /\ DOMAIN objs[o].gps_data = {"lat", "lon", "sat"}
          /\ objs[o].gps_data["lat"] = 10
          /\ objs[o].gps_data["lon"] = 20
          /\ objs[o].gps_data["sat"] = 7
          /\ objs[o].last_rssi = Strong.rssi

\* the store as its ids in order, each with its Peer's fields but last_track
StoreView(st) ==
    LET es == Entries(st.rovers)
    IN  [i \in 1 .. Len(es) |->
            LET o == st.objs[es[i].obj]
            IN  [key |-> es[i].key, id |-> o.id, gps_data |-> o.gps_data, last_rssi |-> o.last_rssi, last_toa |-> o.last_toa]]

\* C17: in every reachable store and for every frame, processing the frame
\* twice (the second time at the same tick or more than a save interval
\* later) leaves the ids, their order and every Peer field but last_track as
\* processing it once does.
C17_MergeIdempotent ==
    \A f \in Frames :
        LET once == RxStore(objs, rovers, f.m, f.sig, ticks_ms)
            view == StoreView(once)
        IN  \A d \in {0, _ROVERS_SAVE_INTERVAL + 1} :
                StoreView(RxStore(once.objs, once.rovers, f.m, f.sig, (now + d) % TICKS_PERIOD)) = view

\* a frame made a Peer, and the same frame was processed again later
C17_Witness ==
    /\ lastOp.op = "rx"
    /\ lastOp.again
    /\ rxs = 2
    /\ Len(objs) = 1
    /\ objs[1].last_track # 0

\* C18: the store holds each id once, each stored Peer's id is the key it is
\* stored under, and a message whose id is in the store leaves the keys and
\* the objects they map to as they were and makes no new Peer object.
C18_OnePeerPerId ==
    /\ [](\A i, j \in 1 .. Len(Entries(rovers)) : Entries(rovers)[i].key = Entries(rovers)[j].key => i = j)
    /\ [](\A i \in 1 .. Len(Entries(rovers)) :
             /\ Entries(rovers)[i].obj \in 1 .. Len(objs)
             /\ objs[Entries(rovers)[i].obj].id = Entries(rovers)[i].key)
    /\ [][\A f \in Frames, fault \in SaveFaults :
             (_lora_rx(f.m, f.sig, fault) /\ Valid(f.m) /\ f.m.id \in Ids(rovers))
                => rovers' = rovers /\ Len(objs') = Len(objs)]_vars

\* two Peers are stored, and the latest message updated one of them
C18_Witness ==
    /\ lastOp.op = "rx"
    /\ lastOp.updated
    /\ Len(Entries(rovers)) = 2
    /\ Len(objs) = 2
    /\ disk.valid

\* C19: a step that is not _button_long removes no id from the store, and
\* _button_long removes at most the id of the tracked Peer.
C19_RemovedOnlyByHold ==
    [][/\ (\A fault \in SaveFaults : ~_button_long(fault)) => Ids(rovers) \subseteq Ids(rovers')
       /\ \A fault \in SaveFaults :
             _button_long(fault) =>
                IF tracked_rover = 0 THEN rovers' = rovers
                ELSE Ids(rovers') = Ids(rovers) \ {objs[tracked_rover].id}]_vars

\* the periodic save failed with two Peers in the store, which are still there
C19_Witness ==
    /\ lastOp.op = "save"
    /\ ~disk.valid
    /\ Len(Entries(rovers)) = 2
    /\ tracked_rover # 0

\* what save_rovers leaves in the file for a store
Saved(d, rs, fault) ==
    IF fault = "dump" THEN ~d.valid
    ELSE /\ d.valid
         /\ Len(d.content) = Len(Entries(rs))
         /\ \A i \in 1 .. Len(Entries(rs)) : d.content[i].id = Entries(rs)[i].key

\* C20: the step of _lora_rx that makes a Peer saves the store with the new
\* Peer in it, the step of _button_long that removes a Peer saves the store
\* without it, and a message for an id already stored (or an invalid one)
\* leaves the file untouched.
C20_SavedOnCreateAndRemove ==
    [][/\ \A f \in Frames, fault \in SaveFaults :
             _lora_rx(f.m, f.sig, fault) =>
                IF Valid(f.m) /\ f.m.id \notin Ids(rovers)
                THEN lastOp'.saved /\ f.m.id \in Ids(rovers') /\ Saved(disk', rovers', fault)
                ELSE ~lastOp'.saved /\ disk' = disk
       /\ \A fault \in SaveFaults :
             (_button_long(fault) /\ rovers' # rovers)
                => lastOp'.saved /\ Saved(disk', rovers', fault)]_vars

\* a hold removed one of two Peers and the file holds the one that is left
C20_Witness ==
    /\ lastOp.op = "long"
    /\ lastOp.saved
    /\ disk.valid
    /\ Len(disk.content) = 1
    /\ Len(Entries(rovers)) = 1
    /\ disk.content[1].id = Entries(rovers)[1].key
    /\ rxs > 0

\* C21 (as claimed): list_rovers() gives the ids in insertion order: a message
\* for a stored id leaves the list as it was, a message that creates a Peer
\* puts its id last, and a hold leaves the ids that remain in the order they
\* had.
C21_InsertionOrder ==
    [][/\ \A f \in Frames, fault \in SaveFaults :
             (_lora_rx(f.m, f.sig, fault) /\ Valid(f.m))
                => list_rovers(rovers') =
                      IF f.m.id \in Ids(rovers) THEN list_rovers(rovers)
                      ELSE Append(list_rovers(rovers), f.m.id)
       /\ \A fault \in SaveFaults :
             _button_long(fault)
                => list_rovers(rovers') = SelectSeq(list_rovers(rovers), LAMBDA i : i \in Ids(rovers'))]_vars

\* C22: a tap on a non-empty store sets the cursor to (cursor + 1) modulo the
\* number of stored ids and tracks the Peer stored under list_rovers()[cursor];
\* on a store of three ids walked from cursor 0, three taps in a row select
\* the second, the third and the first id of list_rovers().
C22_CursorWrap ==
    /\ [][(_button_bump /\ Len(list_rovers(rovers)) > 0)
             => /\ current_rover_index' = (current_rover_index + 1) % Len(list_rovers(rovers))
                /\ tracked_rover' # 0
                /\ tracked_rover' = get_rover(rovers, list_rovers(rovers)[current_rover_index' + 1])
                /\ objs[tracked_rover'].id = list_rovers(rovers)[current_rover_index' + 1]]_vars
    /\ []((Len(list_rovers(rovers)) = 3 /\ current_rover_index = 0)
             => LET first == TrackNext(rovers, current_rover_index, tracked_rover)
                    second == TrackNext(rovers, first.index, first.tracked)
                    third == TrackNext(rovers, second.index, second.tracked)
                IN  /\ objs[first.tracked].id = list_rovers(rovers)[2]
                    /\ objs[second.tracked].id = list_rovers(rovers)[3]
                    /\ objs[third.tracked].id = list_rovers(rovers)[1]
                    /\ third.index = 0)

\* three ids are stored, no message came, and taps have brought the cursor
\* back to 0: the first id of the list is tracked
C22_Witness ==
    /\ lastOp.op = "bump"
    /\ rxs = 0
    /\ Len(list_rovers(rovers)) = 3
    /\ current_rover_index = 0
    /\ tracked_rover # 0
    /\ objs[tracked_rover].id = list_rovers(rovers)[1]

\* C23: whenever the store holds an id, the cursor is at least 0 and less
\* than the number of stored ids.
C23_CursorInRange ==
    Len(list_rovers(rovers)) > 0
       => /\ current_rover_index >= 0
          /\ current_rover_index < Len(list_rovers(rovers))

\* messages came, two Peers were made, and a hold removed one of them: one
\* id is left, the cursor is 0 and the Peer under it is tracked
C23_Witness ==
    /\ lastOp.op = "long"
    /\ lastOp.saved
    /\ rxs > 0
    /\ Len(list_rovers(rovers)) = 1
    /\ current_rover_index = 0
    /\ Len(objs) = 2
    /\ tracked_rover = get_rover(rovers, list_rovers(rovers)[1])

\* C24: when a hold removes the tracked Peer from a store of two or more,
\* the Peer's id is gone from the store, the cursor is in range, and the
\* tracked Peer is the stored one that list_rovers() has at the cursor; from a
\* store of two it is the one that remains.
C24_RemovalKeepsCursor ==
    [][\A fault \in SaveFaults :
          (/\ _button_long(fault)
           /\ tracked_rover # 0
           /\ get_rover(rovers, objs[tracked_rover].id) = tracked_rover
           /\ Len(list_rovers(rovers)) >= 2)
             => /\ objs[tracked_rover].id \notin Ids(rovers')
                /\ Len(list_rovers(rovers')) = Len(list_rovers(rovers)) - 1
                /\ current_rover_index' \in 0 .. (Len(list_rovers(rovers')) - 1)
                /\ tracked_rover' # 0
                /\ tracked_rover' = get_rover(rovers', list_rovers(rovers')[current_rover_index' + 1])
                /\ objs[tracked_rover'].id = list_rovers(rovers')[current_rover_index' + 1]
                /\ (Len(list_rovers(rovers)) = 2 => list_rovers(rovers') = <<objs[tracked_rover'].id>>)]_vars

\* a hold on a store of two whose second Peer was tracked: the first one is
\* left and is tracked, the file holds it alone
C24_Witness ==
    /\ lastOp.op = "long"
    /\ lastOp.saved
    /\ rxs = 0
    /\ Len(objs) = 2
    /\ Len(list_rovers(rovers)) = 1
    /\ current_rover_index = 0
    /\ tracked_rover # 0
    /\ objs[tracked_rover].id = list_rovers(rovers)[1]
    /\ disk.valid
    /\ Len(disk.content) = 1

\* an entry that is an object with an id
HasId(data) == "id" \in DOMAIN data

\* an entry of the shape to_dict writes, but for keys that may be missing
RightShape(data) == HasId(data) /\ "gps_data" \in DOMAIN data

\* C25 (as claimed): after load_rovers on a file that is absent, holds no
\* JSON, or holds a list with an entry of the wrong shape, the store is empty
\* and nothing was raised to the caller.
C25_LoadMalformedEmpty ==
    (/\ lastOp.op \in {"load", "load raised"}
     /\ (~disk.valid \/ \E i \in 1 .. Len(disk.content) : ~RightShape(disk.content[i])))
       => /\ lastOp.op = "load"
          /\ list_rovers(rovers) = <<>>
          /\ objs = <<>>

\* C26 (as claimed): after load_rovers on a list whose entries all have an
\* id and lack at most some of the other keys, nothing was raised and every
\* entry's id is in the store.
C26_LoadMissingFields ==
    (/\ lastOp.op \in {"load", "load raised"}
     /\ disk.valid
     /\ \A i \in 1 .. Len(disk.content) : RightShape(disk.content[i]))
       => /\ lastOp.op = "load"
          /\ \A i \in 1 .. Len(disk.content) : disk.content[i].id \in Ids(rovers)

\* C27 (as claimed): for every secret that is not empty and every payload
\* without a space, message_unpack of what message_pack returned, with the
\* same secret, returns the bytes of the payload.
C27_RoundTrip ==
    (/\ cpc = "unpacked"
     /\ Len(csecret) > 0
     /\ \A i \in 1 .. Len(cmsg) : cmsg[i] # 32)
       => /\ ~unpacked_string.none
          /\ unpacked_string.value = cmsg

\* C28 (as claimed): with an empty secret and a payload that holds more than
\* spaces, message_pack and message_unpack raise nothing and return None.
C28_EmptySecretFails ==
    /\ (cpc = "packed" /\ Len(csecret) = 0 /\ Len(StrReplaceSpace(cmsg)) > 0)
          => packed_string.exc = "none" /\ packed_string.none
    /\ (cpc = "received" /\ Len(csecret) = 0 /\ Len(cmsg) > 0)
          => unpacked_string.exc = "none" /\ unpacked_string.none

C30_SleepOnce ==
    /\ [](LET n == Len(SelectSeq(buttonLog, LAMBDA ev : ev = "device.sleep"))
          IN  /\ n <= 1
              /\ n = 1 => bpc = "ended" /\ buttonLog[Len(buttonLog)] = "device.sleep")
    /\ [][/\ (bpc = "hold_sleep" /\ bpc' # bpc)
             => IF elapsed' >= _BUTTON_SLEEP
                THEN /\ buttonLog' = Append(buttonLog, "device.sleep")
                     /\ bpc' = "ended"
                ELSE buttonLog' = buttonLog
          /\ bpc = "ended" => buttonLog' = buttonLog /\ bpc' = "ended"]_vars

\* the threshold was reached exactly, the sleep was published, and the button
\* was released afterwards
C30_Witness ==
    /\ bpc = "ended"
    /\ button = _RELEASED
    /\ lastPress.e1 = _BUTTON_SLEEP
    /\ buttonLog = <<"device.sleep">>

\* C31: when the pin no longer reads pressed at the second look after the
\* debounce delay, check_button sets no start tick, publishes nothing and goes
\* to its 100 ms sleep; start is set only by the second look reading pressed,
\* and nothing is published between a rejected contact and the next poll.
C31_Debounce ==
    /\ [][(bpc = "resample" /\ bpc' # bpc) =>
              IF button = _PRESSED
              THEN start' = ticks_ms /\ bpc' = "while" /\ buttonLog' = buttonLog
              ELSE start' = start /\ bpc' = "idle_sleep" /\ buttonLog' = buttonLog]_vars
    /\ [][start' # start => (bpc = "resample" /\ button = _PRESSED)]_vars
    /\ [][(bpc = "idle_sleep" /\ lastPress.how = "bounce") => buttonLog' = buttonLog]_vars

\* a contact that was gone at the second look was dropped without an event,
\* after an earlier press had set start, and the task polls again
C31_Witness ==
    /\ lastPress.how = "bounce"
    /\ bpc = "poll"
    /\ presses = 2
    /\ start > 0
    /\ buttonLog = <<"button.bump">>

\* C32: after every press cycle, the one given up at the sleep threshold
\* included, check_button is polling again: the coroutine never comes to an
\* end, neither by leaving its loop nor by an exception.
C32_BackToIdle == bpc \notin {"ended", "crashed"}

\* C33: a frame that message_unpack or is_json rejects, or whose dict has no
\* 'id', leaves the store as it is: no Rover object is made, no field of a
\* stored one changes, the index and the tracked Rover stay, and nothing is
\* written to the file; frames after it are still taken.
C33_BadFrameDropped ==
    /\ [][(rxs' = rxs + 1 /\ ~(lastOp'.msg.ok /\ lastOp'.msg.id # None)) =>
              /\ objs' = objs
              /\ rovers' = rovers
              /\ current_rover_index' = current_rover_index
              /\ tracked_rover' = tracked_rover
              /\ disk' = disk
              /\ saved_rovers_tick' = saved_rovers_tick
              /\ ~lastOp'.saved /\ ~lastOp'.created /\ ~lastOp'.updated]_vars
    /\ [](rxs < MaxRx => ENABLED (\E f \in Frames : _lora_rx(f.m, f.sig, "none")))

\* a frame whose dict has no id was the first frame, received while r1 was
\* stored and tracked and the file held it; another frame can follow
C33_Witness ==
    /\ lastOp.op = "rx" /\ lastOp.msg.ok /\ lastOp.msg.id = None
    /\ rxs = 1
    /\ Ids(rovers) = {"r1"}
    /\ tracked_rover # 0
    /\ disk.valid

\* C34: while run keeps taking its turns and saving succeeds, a stored Rover
\* whose present state is not in the file was last changed at most one save
\* interval and one loop period ago: the timer save writes every change
\* within that time.
C34_TimerSave ==
    \A i \in 1 .. Len(Entries(rovers)) :
        LET o == objs[Entries(rovers)[i].obj]
        IN  (~disk.valid \/ ~\E j \in 1 .. Len(disk.content) : disk.content[j] = to_dict(o))
                => ticks_diff(ticks_ms, o.last_track) <= _ROVERS_SAVE_INTERVAL + LoopPeriod

\* C35: save_rovers followed by load_rovers into an empty store gives the
\* store back, for every reachable store whose Rovers all hold lat, lon and
\* ut: the same ids in the same order, each with the gps_data, last_rssi and
\* last_toa it had when saved.
C35_SaveLoadRoundTrip ==
    (\A i \in 1 .. Len(Entries(rovers)) :
        {"lat", "lon", "ut"} \subseteq DOMAIN objs[Entries(rovers)[i].obj].gps_data)
    => LET d == save_rovers(objs, rovers, disk, "none")
           ld == load_rovers(d)
       IN  StoreView([objs |-> ld.objs, rovers |-> ld.rovers])
               = StoreView([objs |-> objs, rovers |-> rovers])

\* C36: in one publish of a name, every handler registered for the name when
\* the publish begins is invoked exactly once, in the order of registration,
\* also when handlers unsubscribe during the dispatch.
C36_AllInvokedOnce == lastEmit.name # None => lastEmit.invoked = lastEmit.handlers

\* C37: in every state reached by messages, bumps and long presses, the
\* tracked Rover is either None or an object the store holds, and then the id
\* at current_rover_index in list_rovers() is its id.
C37_TrackedIsStored ==
    tracked_rover # 0 =>
        /\ \E i \in 1 .. Len(Entries(rovers)) : Entries(rovers)[i].obj = tracked_rover
        /\ current_rover_index < Len(list_rovers(rovers))
        /\ list_rovers(rovers)[current_rover_index + 1] = objs[tracked_rover].id

\* C38: store updates are applied in frame arrival order.  The k-th run of
\* _lora_rx that works on the store is that of the k-th frame enqueued: it is
\* the start of a task (before its first suspension point) whose arguments are
\* those of the k-th entry put, whatever the interleaving of the callback,
\* the drain task, the LED publications and the handler tasks.
C38_FrameOrder ==
    /\ [](rxs <= Len(drainLog) /\ Len(drainLog) <= Len(putLog))
    /\ [][rxs' = rxs + 1 =>
             /\ lastOp'.msg = putLog[rxs'].items[1]
             /\ \E i \in 1 .. Len(active_tasks) :
                   /\ active_tasks[i].h = "Base._lora_rx"
                   /\ active_tasks[i].pc = "ready"
                   /\ active_tasks'[i].pc # "ready"
                   /\ active_tasks[i].args = RxArgs(putLog[rxs'])]_vars

\* two frames for r1 with different positions were both handled to the end,
\* and the store holds the position of the second
C38_Witness ==
    /\ rxs = 2
    /\ Len(putLog) = 2
    /\ putLog[1].items[1].id = "r1"
    /\ putLog[2].items[1].id = "r1"
    /\ putLog[1].items[1].data # putLog[2].items[1].data
    /\ "lat" \in DOMAIN putLog[2].items[1].data
    /\ putLog[2].items[1].data.lat = 11
    /\ objs[get_rover(rovers, "r1")].gps_data.lat = 11
    /\ \A i \in 1 .. Len(active_tasks) : active_tasks[i].h = "Base._lora_rx" => active_tasks[i].done

\* C39: auto-selection happens only when nothing is selected.  A run of
\* _lora_rx with a message that decodes and has an id, while tracked_rover is
\* None, selects the Rover stored under the id and sets the cursor to the id's
\* index in list_rovers(); every other run (a Rover is selected, or the
\* message has no id or does not decode) leaves tracked_rover and the cursor
\* unchanged, whether the id is the selected one or another, new or known.
C39_AutoSelect ==
    [][rxs' = rxs + 1 =>
          LET m == lastOp'.msg
          IN  IF tracked_rover = 0 /\ Valid(m)
              THEN /\ tracked_rover' # 0
                   /\ tracked_rover' = get_rover(rovers', m.id)
                   /\ objs'[tracked_rover'].id = m.id
                   /\ current_rover_index' < Len(list_rovers(rovers'))
                   /\ list_rovers(rovers')[current_rover_index' + 1] = m.id
              ELSE /\ tracked_rover' = tracked_rover
                   /\ current_rover_index' = current_rover_index]_vars

\* a message for r2, new, selected it at index 1 while nothing was selected;
\* the next message, for r1 which is stored, left the selection and the
\* cursor alone
C39_Witness ==
    /\ rxs = 2
    /\ lastOp.op = "rx"
    /\ lastOp.msg.id = "r1"
    /\ lastOp.updated
    /\ tracked_rover # 0
    /\ objs[tracked_rover].id = "r2"
    /\ current_rover_index = 1
    /\ list_rovers(rovers) = <<"r1", "r2">>

\* C40: when a hold removes the tracked Peer from a store of three or more,
\* the cursor being on it, the Peer tracked afterwards is the one that followed
\* the removed one in list_rovers() (the first one when the removed one was
\* last).
C40_SuccessorSelected ==
    [][\A fault \in SaveFaults :
          (/\ _button_long(fault)
           /\ tracked_rover # 0
           /\ get_rover(rovers, objs[tracked_rover].id) = tracked_rover
           /\ Len(list_rovers(rovers)) >= 3
           /\ current_rover_index < Len(list_rovers(rovers))
           /\ list_rovers(rovers)[current_rover_index + 1] = objs[tracked_rover].id)
             => /\ tracked_rover' # 0
                /\ objs'[tracked_rover'].id =
                      list_rovers(rovers)[((current_rover_index + 1) % Len(list_rovers(rovers))) + 1]]_vars

====
